---- MODULE Spec2Model ----
(***************************************************************************)
(* Compare engine of the OOXML document comparer                           *)
(* (backend/app/services/compare_engine.py and its collaborators).         *)
(*                                                                         *)
(* Texts are sequences of one-character strings, so that tokenizing,       *)
(* normalizing and slicing are computed as the code computes them.         *)
(* Indices kept in the data (alignment pairs, opcodes) are the 0-based     *)
(* indices of the Python code; -1 is the gap marker of the pair lists.     *)
(***************************************************************************)
EXTENDS Integers, Sequences, FiniteSets, TLC

VARIABLES
    pc,                  \* position of the call being modelled
    orig_paragraphs,     \* ParagraphInfo list of the original document
    mod_paragraphs,      \* ParagraphInfo list of the modified document
    options,             \* the options of the comparison
    para_pairs,          \* result of _align_paragraphs_patience
    pair_pos,            \* loop position of run_compare_ooxml in para_pairs
    total_insertions,
    total_deletions,
    total_moves,
    revision_operations,
    moves_detected,      \* history: size of the move mappings found so far
    result,              \* the returned dictionary (stats, meta, document)
    deleted_spans,       \* arguments and result of _detect_moves_shingled
    inserted_spans,
    move_mappings,
    p_element,           \* the <w:p> element the OOXML functions work on
    xml_call,            \* arguments of the OOXML function that was called
    xml_result,          \* what it returned
    move_pairs,          \* the pairs create_move_pair has returned so far
    tok_text,            \* argument and result of tokenize_preserve_spacing
    tok_result,
    dmp_results,         \* what diff_main has returned, by pair of strings
    first_run,           \* history: the outputs of the first of two runs
    fn_call,             \* a helper function called on its own: its arguments
    fn_result            \* and what it returned

vars == <<pc, orig_paragraphs, mod_paragraphs, options, para_pairs, pair_pos,
          total_insertions, total_deletions, total_moves, revision_operations,
          moves_detected, result, deleted_spans, inserted_spans, move_mappings,
          p_element, xml_call, xml_result, move_pairs, tok_text, tok_result,
          dmp_results, first_run, fn_call, fn_result>>

\* the variables of the OOXML functions and of the tokenizer
xmlVars == <<p_element, xml_call, xml_result, move_pairs>>

textVars == <<tok_text, tok_result>>

\* the variables of the helper functions called on their own
callVars == <<fn_call, fn_result>>

-----------------------------------------------------------------------------
(* Bounds of the model *)

MaxOrigParas == 4
MaxModParas == 3
MaxDocParas == 2
MaxSpans == 2
MaxParaRuns == 2
MaxMovePairs == 2
MaxTextLen == 3
MaxSeqLen == 3
MaxLisLen == 4

-----------------------------------------------------------------------------
(* Python list helpers *)

None == -1

Min2(x, y) == IF x <= y THEN x ELSE y

\* seq[lo:hi] with 0 <= lo: a negative hi counts from the end, out-of-range
\* bounds are clamped
PySlice(seq, lo, hi) ==
    LET from_end == IF hi + Len(seq) < 0 THEN 0 ELSE hi + Len(seq)
        h == Min2(IF hi < 0 THEN from_end ELSE hi, Len(seq))
    IN  IF lo >= h THEN <<>> ELSE SubSeq(seq, lo + 1, h)

\* seq[i] for a 0-based i known to be in range
At(seq, i) == seq[i + 1]

Reverse(seq) == [k \in 1..Len(seq) |-> seq[Len(seq) + 1 - k]]

RECURSIVE Concat(_)
Concat(seqs) ==
    IF seqs = <<>> THEN <<>> ELSE Head(seqs) \o Concat(Tail(seqs))

RECURSIVE SumLen(_)
SumLen(seqs) ==
    IF seqs = <<>> THEN 0 ELSE Len(Head(seqs)) + SumLen(Tail(seqs))

-----------------------------------------------------------------------------
(* utils/text_ops.py *)

WordChars == {"a", "b", "c", "A", "B"}

SpaceChars == {" ", "\t"}

IsWord(c) == c \in WordChars

IsSpace(c) == c \in SpaceChars

\* str.lower() on the characters of the model
Lower(c) == IF c = "A" THEN "a" ELSE IF c = "B" THEN "b" ELSE c

\* a variant that stops after the first character
RunLength_one(text, class) ==
    IF text = <<>> \/ Head(text) \notin class THEN 0 ELSE 1

\* length of the longest prefix of text whose characters are all in class
RECURSIVE RunLength(_, _)
RunLength(text, class) ==
    IF text = <<>> \/ Head(text) \notin class THEN 0
    ELSE 1 + RunLength(Tail(text), class)

\* _token_re.findall: \w+ | \s+ | [^\w\s]
RECURSIVE tokenize_preserve_spacing(_)
tokenize_preserve_spacing(text) ==
    IF text = <<>> THEN <<>>
    ELSE LET n == IF IsWord(Head(text)) THEN RunLength(text, WordChars)
                  ELSE IF IsSpace(Head(text)) THEN RunLength(text, SpaceChars)
                  ELSE 1
         IN  <<SubSeq(text, 1, n)>>
               \o tokenize_preserve_spacing(SubSeq(text, n + 1, Len(text)))

\* imported by compare_engine.py but absent from utils/text_ops.py
tokenize_for_diff(text, granularity) ==
    IF granularity = "word" THEN tokenize_preserve_spacing(text)
    ELSE [k \in 1..Len(text) |-> <<text[k]>>]

\* re.sub(r"\s+", " ", text)
RECURSIVE CollapseSpaces(_)
CollapseSpaces(text) ==
    IF text = <<>> THEN <<>>
    ELSE IF IsSpace(Head(text))
         THEN LET n == RunLength(text, SpaceChars)
              IN  <<" ">> \o CollapseSpaces(SubSeq(text, n + 1, Len(text)))
         ELSE <<Head(text)>> \o CollapseSpaces(Tail(text))

\* str.strip()
Strip(text) ==
    LET lead == RunLength(text, SpaceChars)
        trail == RunLength(Reverse(text), SpaceChars)
    IN  IF lead = Len(text) THEN <<>>
        ELSE SubSeq(text, lead + 1, Len(text) - trail)

normalize_for_compare(text) ==
    IF text = <<>> THEN <<>>
    ELSE LET stripped == Strip(CollapseSpaces(text))
         IN  [k \in 1..Len(stripped) |-> Lower(stripped[k])]

-----------------------------------------------------------------------------
(* _patience_lis *)

\* a variant whose binary search goes the other way
RECURSIVE PileSearch_swapped(_, _, _, _)
PileSearch_swapped(piles, val, left, right) ==
    IF left < right
    THEN LET mid == (left + right) \div 2
             top == At(piles, mid)[Len(At(piles, mid))]
         IN  IF top[1] <= val THEN PileSearch_swapped(piles, val, left, mid)
             ELSE PileSearch_swapped(piles, val, mid + 1, right)
    ELSE left

\* binary search for the leftmost pile whose top value is >= val
RECURSIVE PileSearch(_, _, _, _)
PileSearch(piles, val, left, right) ==
    IF left < right
    THEN LET mid == (left + right) \div 2
             top == At(piles, mid)[Len(At(piles, mid))]
         IN  IF top[1] >= val THEN PileSearch(piles, val, left, mid)
             ELSE PileSearch(piles, val, mid + 1, right)
    ELSE left

\* the loop over the (val, idx) tuples: returns the piles and predecessors
RECURSIVE PatienceLoop(_, _, _, _)
PatienceLoop(sequence, k, piles, predecessors) ==
    IF k > Len(sequence) THEN [piles |-> piles, predecessors |-> predecessors]
    ELSE LET val == sequence[k][1]
             idx == sequence[k][2]
             left == PileSearch(piles, val, 0, Len(piles))
             grown == IF left = Len(piles) THEN Append(piles, <<>>) ELSE piles
             placed == [grown EXCEPT ![left + 1] = Append(@, <<val, idx>>)]
             pred == IF left > 0
                     THEN At(placed, left - 1)[Len(At(placed, left - 1))][2]
                     ELSE None
         IN  PatienceLoop(sequence, k + 1, placed,
                          (idx :> pred) @@ predecessors)

\* follows the predecessors from current_idx; the list is built backwards
RECURSIVE LisChain(_, _)
LisChain(predecessors, current_idx) ==
    IF current_idx = None THEN <<>>
    ELSE <<current_idx>>
           \o LisChain(predecessors,
                       IF current_idx \in DOMAIN predecessors
                       THEN predecessors[current_idx] ELSE None)

_patience_lis(sequence) ==
    IF sequence = <<>> THEN <<>>
    ELSE LET st == PatienceLoop(sequence, 1, <<>>, <<>>)
             lastPile == st.piles[Len(st.piles)]
         IN  Reverse(LisChain(st.predecessors, lastPile[Len(lastPile)][2]))

-----------------------------------------------------------------------------
(* _myers_diff: opcodes are <<tag, i1, i2, j1, j2>> *)

\* cells 0..m of row i of the dp table, given row i-1 (rows hold cell j at j+1)
RECURSIVE MyersRow(_, _, _, _, _)
MyersRow(a, b, i, prev, cur) ==
    LET j == Len(cur)
    IN  IF j > Len(b) THEN cur
        ELSE LET cell == IF i = 0 THEN j
                         ELSE IF j = 0 THEN i
                         ELSE IF a[i] = b[j] THEN At(prev, j - 1)
                         ELSE 1 + Min2(At(prev, j),
                                       Min2(At(cur, j - 1), At(prev, j - 1)))
             IN  MyersRow(a, b, i, prev, Append(cur, cell))

\* rows 0..n of the dp table
RECURSIVE MyersTable(_, _, _)
MyersTable(a, b, rows) ==
    LET i == Len(rows)
    IN  IF i > Len(a) THEN rows
        ELSE MyersTable(a, b,
                 Append(rows,
                        MyersRow(a, b, i,
                                 IF i = 0 THEN <<>> ELSE rows[i], <<>>)))

\* the backtrack loop; opcodes come out last-first, as they are appended
RECURSIVE MyersBacktrack(_, _, _, _, _)
MyersBacktrack(a, b, dp, i, j) ==
    IF ~(i > 0 \/ j > 0) THEN <<>>
    ELSE IF i > 0 /\ j > 0 /\ a[i] = b[j]
         THEN MyersBacktrack(a, b, dp, i - 1, j - 1)
    ELSE IF i > 0 /\ (j = 0 \/ At(At(dp, i), j) = At(At(dp, i - 1), j) + 1)
         THEN <<<<"delete", i - 1, i, j, j>>>>
                \o MyersBacktrack(a, b, dp, i - 1, j)
    ELSE IF j > 0 /\ (i = 0 \/ At(At(dp, i), j) = At(At(dp, i), j - 1) + 1)
         THEN <<<<"insert", i, i, j - 1, j>>>>
                \o MyersBacktrack(a, b, dp, i, j - 1)
    ELSE <<<<"replace", i - 1, i, j - 1, j>>>>
           \o MyersBacktrack(a, b, dp, i - 1, j - 1)

\* a variant that merges operations of the same tag that are not adjacent
RECURSIVE MyersMerge_loose(_, _)
MyersMerge_loose(opcodes, merged) ==
    IF opcodes = <<>> THEN merged
    ELSE LET op == Head(opcodes)
             n == Len(merged)
         IN  IF n > 0 /\ merged[n][1] = op[1]
             THEN MyersMerge_loose(Tail(opcodes),
                      Append(SubSeq(merged, 1, n - 1),
                             <<op[1], merged[n][2], op[3], merged[n][4], op[5]>>))
             ELSE MyersMerge_loose(Tail(opcodes), Append(merged, op))

\* merge consecutive operations of the same tag
RECURSIVE MyersMerge(_, _)
MyersMerge(opcodes, merged) ==
    IF opcodes = <<>> THEN merged
    ELSE LET op == Head(opcodes)
             n == Len(merged)
         IN  IF n > 0 /\ merged[n][1] = op[1] /\ merged[n][3] = op[2]
                /\ merged[n][5] = op[4]
             THEN MyersMerge(Tail(opcodes),
                      Append(SubSeq(merged, 1, n - 1),
                             <<op[1], merged[n][2], op[3], merged[n][4], op[5]>>))
             ELSE MyersMerge(Tail(opcodes), Append(merged, op))

\* a variant that leaves the replaces as they are
MyersSplitReplace_keep(merged) == merged

\* convert replaces to delete+insert
RECURSIVE MyersSplitReplace(_)
MyersSplitReplace(merged) ==
    IF merged = <<>> THEN <<>>
    ELSE LET op == Head(merged)
         IN  (IF op[1] = "replace"
              THEN << <<"delete", op[2], op[3], op[4], op[4]>>,
                      <<"insert", op[3], op[3], op[4], op[5]>> >>
              ELSE <<op>>) \o MyersSplitReplace(Tail(merged))

_myers_diff(a, b) ==
    IF a = <<>> /\ b = <<>> THEN <<>>
    ELSE IF a = <<>> THEN << <<"insert", 0, 0, 0, Len(b)>> >>
    ELSE IF b = <<>> THEN << <<"delete", 0, Len(a), 0, 0>> >>
    ELSE LET dp == MyersTable(a, b, <<>>)
             opcodes == Reverse(MyersBacktrack(a, b, dp, Len(a), Len(b)))
         IN  MyersSplitReplace(MyersMerge(opcodes, <<>>))

-----------------------------------------------------------------------------
(* _align_patience_myers: pairs are <<i, j>>, -1 for a gap *)

\* a variant that does not leave out the used positions
Candidates_all(modified, h, used_mod_indices) ==
    {j \in 0..(Len(modified) - 1) : At(modified, j) = h}

\* [j for j in mod_hash_to_indices[h] if j not in used_mod_indices]
Candidates(modified, h, used_mod_indices) ==
    {j \in 0..(Len(modified) - 1) :
        At(modified, j) = h /\ j \notin used_mod_indices}

\* a variant that takes the last available candidate
FirstCandidate_last(candidates) ==
    CHOOSE j \in candidates : \A k \in candidates : j >= k

\* candidates[0]: the lists of mod_hash_to_indices are in increasing order
FirstCandidate(candidates) ==
    CHOOSE j \in candidates : \A k \in candidates : j <= k

\* the loop that builds matches, walking the original in order
RECURSIVE MatchLoop(_, _, _, _, _)
MatchLoop(original, modified, i, matches, used_mod_indices) ==
    IF i >= Len(original) THEN matches
    ELSE LET candidates == Candidates(modified, At(original, i),
                                      used_mod_indices)
         IN  IF candidates # {}
             THEN LET j == FirstCandidate(candidates)
                  IN  MatchLoop(original, modified, i + 1,
                                Append(matches, <<i, j>>),
                                used_mod_indices \union {j})
             ELSE MatchLoop(original, modified, i + 1, matches,
                            used_mod_indices)

\* sorted(matches, key=lambda x: x[0]): stable insertion into a sorted list
RECURSIVE InsertByFirst(_, _)
InsertByFirst(sorted, m) ==
    IF sorted = <<>> THEN <<m>>
    ELSE IF sorted[Len(sorted)][1] <= m[1] THEN Append(sorted, m)
    ELSE Append(InsertByFirst(SubSeq(sorted, 1, Len(sorted) - 1), m),
                sorted[Len(sorted)])

RECURSIVE SortByFirst(_, _)
SortByFirst(matches, sorted) ==
    IF matches = <<>> THEN sorted
    ELSE SortByFirst(Tail(matches), InsertByFirst(sorted, Head(matches)))

\* the pairs of one opcode, offset by the start of the slice it was computed on
OpcodePairs(op, orig_idx, mod_idx) ==
    IF op[1] = "equal"
    THEN [off \in 1..(op[3] - op[2]) |->
             <<orig_idx + op[2] + off - 1, mod_idx + op[4] + off - 1>>]
    ELSE IF op[1] = "delete"
    THEN [off \in 1..(op[3] - op[2]) |-> <<orig_idx + op[2] + off - 1, -1>>]
    ELSE IF op[1] = "insert"
    THEN [off \in 1..(op[5] - op[4]) |-> <<-1, mod_idx + op[4] + off - 1>>]
    ELSE <<>>

RECURSIVE GapPairs(_, _, _)
GapPairs(gap_opcodes, orig_idx, mod_idx) ==
    IF gap_opcodes = <<>> THEN <<>>
    ELSE OpcodePairs(Head(gap_opcodes), orig_idx, mod_idx)
           \o GapPairs(Tail(gap_opcodes), orig_idx, mod_idx)

\* the loop over lis_indices, then the trailing gap; sorted_matches[orig_i]
\* raises IndexError when orig_i is not a position of sorted_matches
RECURSIVE AnchorLoop(_, _, _, _, _, _, _, _)
AnchorLoop(original, modified, sorted_matches, lis_indices, k, orig_idx, mod_idx, pairs) ==
    IF k > Len(lis_indices)
    THEN [raised |-> FALSE,
          pairs |-> IF orig_idx < Len(original) \/ mod_idx < Len(modified)
                    THEN pairs \o GapPairs(
                             _myers_diff(
                                 PySlice(original, orig_idx, Len(original)),
                                 PySlice(modified, mod_idx, Len(modified))),
                             orig_idx, mod_idx)
                    ELSE pairs]
    ELSE LET orig_i == lis_indices[k]
         IN  IF orig_i >= Len(sorted_matches)
             THEN [raised |-> TRUE, pairs |-> pairs]
             ELSE LET mod_j == At(sorted_matches, orig_i)[2]
                      orig_gap == PySlice(original, orig_idx, orig_i)
                      mod_gap == PySlice(modified, mod_idx, mod_j)
                      gap == IF orig_gap # <<>> \/ mod_gap # <<>>
                             THEN GapPairs(_myers_diff(orig_gap, mod_gap),
                                           orig_idx, mod_idx)
                             ELSE <<>>
                  IN  AnchorLoop(original, modified, sorted_matches,
                                 lis_indices, k + 1, orig_i + 1, mod_j + 1,
                                 pairs \o gap \o << <<orig_i, mod_j>> >>)

_align_patience_myers(original, modified) ==
    LET matches == MatchLoop(original, modified, 0, <<>>, {})
    IN  IF matches = <<>>
        THEN [raised |-> FALSE,
              pairs |-> GapPairs(_myers_diff(original, modified), 0, 0)]
        ELSE LET sorted_matches == SortByFirst(matches, <<>>)
                 match_sequence ==
                     [k \in 1..Len(sorted_matches) |->
                         <<sorted_matches[k][2], sorted_matches[k][1]>>]
                 lis_indices == _patience_lis(match_sequence)
             IN  AnchorLoop(original, modified, sorted_matches, lis_indices,
                            1, 0, 0, <<>>)

-----------------------------------------------------------------------------
(* ooxml_layer.py: paragraphs *)

\* the ParagraphInfo that enumerate_paragraphs builds for a paragraph whose
\* runs hold only text children; style_sig stands for the SHA-1 hex digest
ParagraphInfo(runs, style_sig) ==
    LET text == Concat(runs)
    IN  [text |-> text,
         normalized |-> normalize_for_compare(text),
         runs |-> runs,
         style_sig |-> style_sig]

\* a variant that leaves the style signature out of the key
ParagraphKey_nostyle(para) == para.normalized \o <<"|">>

\* sig = f"{text}|{style_sig}" with text = para.normalized
ParagraphKey(para) == para.normalized \o <<"|">> \o para.style_sig

_align_paragraphs_patience(original_paragraphs, modified_paragraphs) ==
    LET orig_hashes == [k \in 1..Len(original_paragraphs) |->
                           ParagraphKey(original_paragraphs[k])]
        mod_hashes == [k \in 1..Len(modified_paragraphs) |->
                          ParagraphKey(modified_paragraphs[k])]
    IN  _align_patience_myers(orig_hashes, mod_hashes)

-----------------------------------------------------------------------------
(* _diff_runs_inline *)

NUL == "\\0"

\* sep.join(tokens) as a character sequence
RECURSIVE Join(_, _)
Join(tokens, sep) ==
    IF tokens = <<>> THEN <<>>
    ELSE IF Len(tokens) = 1 THEN tokens[1]
    ELSE tokens[1] \o sep \o Join(Tail(tokens), sep)

RECURSIVE CommonPrefixLen(_, _)
CommonPrefixLen(t1, t2) ==
    IF t1 = <<>> \/ t2 = <<>> \/ Head(t1) # Head(t2) THEN 0
    ELSE 1 + CommonPrefixLen(Tail(t1), Tail(t2))

\* The diffs dmp.diff_main followed by dmp.diff_cleanupSemantic may return for
\* (t1, t2): diff_match_patch is a third-party library, so its result is any
\* list of (op, text) with non-empty texts that rebuilds t1 from its
\* equalities and deletions and t2 from its equalities and insertions, with at
\* most one deletion followed by at most one insertion between equalities.
RECURSIVE DiffLists(_, _, _)
DiffLists(t1, t2, last) ==
    IF t1 = <<>> /\ t2 = <<>> THEN {<<>>}
    ELSE (IF last # 0
          THEN UNION {{<< <<0, SubSeq(t1, 1, k)>> >> \o r :
                          r \in DiffLists(SubSeq(t1, k + 1, Len(t1)),
                                          SubSeq(t2, k + 1, Len(t2)), 0)} :
                      k \in 1..CommonPrefixLen(t1, t2)}
          ELSE {})
         \union
         (IF last \in {0, 2}
          THEN UNION {{<< <<-1, SubSeq(t1, 1, k)>> >> \o r :
                          r \in DiffLists(SubSeq(t1, k + 1, Len(t1)), t2, -1)} :
                      k \in 1..Len(t1)}
          ELSE {})
         \union
         (IF last \in {0, 2, -1}
          THEN UNION {{<< <<1, SubSeq(t2, 1, k)>> >> \o r :
                          r \in DiffLists(t1, SubSeq(t2, k + 1, Len(t2)), 1)} :
                      k \in 1..Len(t2)}
          ELSE {})

\* last = 2: no previous diff
DmpDiffs(t1, t2) ==
    IF t1 = t2 THEN {IF t1 = <<>> THEN <<>> ELSE << <<0, t1>> >>}
    ELSE DiffLists(t1, t2, 2)

\* the loop that converts diffs to opcodes with character positions
RECURSIVE DiffOpcodes(_, _, _)
DiffOpcodes(diffs, orig_pos, mod_pos) ==
    IF diffs = <<>> THEN <<>>
    ELSE LET op == Head(diffs)[1]
             n == Len(Head(diffs)[2])
         IN  IF op = 0
             THEN << <<"equal", orig_pos, orig_pos + n, mod_pos, mod_pos + n>> >>
                    \o DiffOpcodes(Tail(diffs), orig_pos + n, mod_pos + n)
             ELSE IF op = -1
             THEN << <<"delete", orig_pos, orig_pos + n, mod_pos, mod_pos>> >>
                    \o DiffOpcodes(Tail(diffs), orig_pos + n, mod_pos)
             ELSE << <<"insert", orig_pos, orig_pos, mod_pos, mod_pos + n>> >>
                    \o DiffOpcodes(Tail(diffs), orig_pos, mod_pos + n)

\* the two strings handed to dmp.diff_main
TokenStr(runs) == Join(tokenize_for_diff(Concat(runs), "word"), <<NUL>>)

\* the opcode lists _diff_runs_inline may return
_diff_runs_inline(original_runs, modified_runs) ==
    {DiffOpcodes(diffs, 0, 0) :
        diffs \in DmpDiffs(TokenStr(original_runs), TokenStr(modified_runs))}

-----------------------------------------------------------------------------
(* Move detection: spans are <<text, tokens, start, end>> *)

\* " ".join(tokens[i:i + shingle_size]) for every i of
\* range(len(tokens) - shingle_size + 1)
_token_shingles(tokens, shingle_size) ==
    IF Len(tokens) < shingle_size THEN {}
    ELSE {Join(PySlice(tokens, i, i + shingle_size), <<" ">>) :
             i \in 0..(Len(tokens) - shingle_size)}

\* the float is kept as the fraction <<numerator, denominator>>
_jaccard_similarity(set1, set2) ==
    IF set1 = {} /\ set2 = {} THEN <<1, 1>>
    ELSE IF set1 = {} \/ set2 = {} THEN <<0, 1>>
    ELSE <<Cardinality(set1 \intersect set2), Cardinality(set1 \union set2)>>

\* x >= y and x > y on fractions with positive denominators
FracGeq(x, y) == x[1] * y[2] >= y[1] * x[2]

FracGt(x, y) == x[1] * y[2] > y[1] * x[2]

\* a variant that shingles every span, whatever its length
SpanShingles_nomin(span, shingle_size, min_span_tokens) ==
    _token_shingles(span[2], shingle_size)

\* the shingle set of a span: empty when the span is below min_span_tokens
SpanShingles(span, shingle_size, min_span_tokens) ==
    IF Len(span[2]) >= min_span_tokens
    THEN _token_shingles(span[2], shingle_size)
    ELSE {}

\* del_with_size.sort(key=len of the shingle set, reverse=True): a stable
\* sort, entries are <<del_idx, shingles>>
RECURSIVE InsertBySize(_, _)
InsertBySize(sorted, e) ==
    IF sorted = <<>> THEN <<e>>
    ELSE IF Cardinality(sorted[Len(sorted)][2]) >= Cardinality(e[2])
    THEN Append(sorted, e)
    ELSE Append(InsertBySize(SubSeq(sorted, 1, Len(sorted) - 1), e),
                sorted[Len(sorted)])

RECURSIVE SortBySize(_, _)
SortBySize(entries, sorted) ==
    IF entries = <<>> THEN sorted
    ELSE SortBySize(Tail(entries), InsertBySize(sorted, Head(entries)))

\* best_match = None
NoMatch == <<>>

\* the inner loop over the insertions: best is <<ins_idx, jaccard>> or NoMatch
RECURSIVE BestMatch(_, _, _, _, _, _, _)
BestMatch(del_shingles, inserted_shingles, used_insertions, jaccard_threshold, ins_idx, best_match, best_jaccard) ==
    IF ins_idx >= Len(inserted_shingles) THEN best_match
    ELSE LET ins_shingles == At(inserted_shingles, ins_idx)
             jaccard == _jaccard_similarity(del_shingles, ins_shingles)
         IN  IF ins_idx \in used_insertions \/ ins_shingles = {}
             THEN BestMatch(del_shingles, inserted_shingles, used_insertions,
                            jaccard_threshold, ins_idx + 1, best_match,
                            best_jaccard)
             ELSE IF FracGeq(jaccard, jaccard_threshold)
                     /\ FracGt(jaccard, best_jaccard)
             THEN BestMatch(del_shingles, inserted_shingles, used_insertions,
                            jaccard_threshold, ins_idx + 1,
                            <<ins_idx, jaccard>>, jaccard)
             ELSE BestMatch(del_shingles, inserted_shingles, used_insertions,
                            jaccard_threshold, ins_idx + 1, best_match,
                            best_jaccard)

\* the outer loop over the deletions, largest shingle set first
RECURSIVE MatchDeletions(_, _, _, _, _, _, _)
MatchDeletions(del_with_size, dspans, ispans, inserted_shingles, jaccard_threshold, used_insertions, mappings) ==
    IF del_with_size = <<>> THEN mappings
    ELSE LET del_idx == Head(del_with_size)[1]
             del_shingles == Head(del_with_size)[2]
             best_match == IF del_shingles = {} THEN NoMatch
                           ELSE BestMatch(del_shingles, inserted_shingles,
                                          used_insertions, jaccard_threshold,
                                          0, NoMatch, <<0, 1>>)
         IN  IF best_match = NoMatch
             THEN MatchDeletions(Tail(del_with_size), dspans, ispans,
                                 inserted_shingles, jaccard_threshold,
                                 used_insertions, mappings)
             ELSE LET ins_idx == best_match[1]
                      key == <<del_idx, At(dspans, del_idx)[3],
                               At(dspans, del_idx)[4]>>
                      val == <<ins_idx, At(ispans, ins_idx)[3],
                               At(ispans, ins_idx)[4]>>
                  IN  MatchDeletions(Tail(del_with_size), dspans, ispans,
                                     inserted_shingles, jaccard_threshold,
                                     used_insertions \union {ins_idx},
                                     (key :> val) @@ mappings)

\* a variant that matches every deletion without regard to the insertions
\* already claimed
_detect_moves_shingled_each(dspans, ispans, shingle_size, jaccard_threshold, min_span_tokens) ==
    LET inserted_shingles ==
            [k \in 1..Len(ispans) |->
                SpanShingles(ispans[k], shingle_size, min_span_tokens)]
        one(k) ==
            MatchDeletions(
                << <<k - 1, SpanShingles(dspans[k], shingle_size,
                                         min_span_tokens)>> >>,
                dspans, ispans, inserted_shingles, jaccard_threshold, {}, <<>>)
        keys == UNION {DOMAIN one(k) : k \in 1..Len(dspans)}
    IN  [key \in keys |-> one(key[1] + 1)[key]]

\* returns the dictionary (del_idx, start, end) -> (ins_idx, start, end)
_detect_moves_shingled(dspans, ispans, shingle_size, jaccard_threshold, min_span_tokens) ==
    LET deleted_shingles ==
            [k \in 1..Len(dspans) |->
                SpanShingles(dspans[k], shingle_size, min_span_tokens)]
        inserted_shingles ==
            [k \in 1..Len(ispans) |->
                SpanShingles(ispans[k], shingle_size, min_span_tokens)]
        del_with_size ==
            SortBySize([k \in 1..Len(dspans) |-> <<k - 1, deleted_shingles[k]>>],
                       <<>>)
    IN  MatchDeletions(del_with_size, dspans, ispans, inserted_shingles,
                       jaccard_threshold, {}, <<>>)

-----------------------------------------------------------------------------
(* _classify_operations_with_moves *)

\* character position -> token index, for the start of every token and the
\* end of the last one
RECURSIVE _build_char_to_token_map(_)
_build_char_to_token_map(tokens) ==
    IF tokens = <<>> THEN <<>>
    ELSE LET n == Len(tokens)
             front == SubSeq(tokens, 1, n - 1)
             char_pos == SumLen(front)
         IN  (char_pos + Len(tokens[n]) :> n)
               @@ (char_pos :> n - 1)
               @@ _build_char_to_token_map(front)

\* dict.get(key, default)
Get(dict, key, default) == IF key \in DOMAIN dict THEN dict[key] ELSE default

\* the tokens of text[start:end], looked up through the token map
SpanTokens(tokens, start, end) ==
    LET char_to_token == _build_char_to_token_map(tokens)
    IN  PySlice(tokens, Get(char_to_token, start, 0),
                Get(char_to_token, end, Len(tokens)))

\* the loop that extracts the deleted (tag "delete") or inserted spans
RECURSIVE ExtractSpans(_, _, _, _, _)
ExtractSpans(opcodes, tag, text, tokens, spans) ==
    IF opcodes = <<>> THEN spans
    ELSE LET op == Head(opcodes)
             start == IF tag = "delete" THEN op[2] ELSE op[4]
             end == IF tag = "delete" THEN op[3] ELSE op[5]
         IN  IF op[1] = tag
             THEN ExtractSpans(Tail(opcodes), tag, text, tokens,
                      Append(spans, <<PySlice(text, start, end),
                                      SpanTokens(tokens, start, end),
                                      Len(spans), Len(spans)>>))
             ELSE ExtractSpans(Tail(opcodes), tag, text, tokens, spans)

\* char_move_map: (start, end) of a moved deletion -> (start, end) of its
\* insertion, read from fields 2 and 3 of the spans
CharMoveMap(mappings, dspans, ispans) ==
    {<< <<At(dspans, k[1])[3], At(dspans, k[1])[4]>>,
        <<At(ispans, mappings[k][1])[3], At(ispans, mappings[k][1])[4]>> >> :
        k \in DOMAIN mappings}

\* is_move of one opcode
IsMove(op, char_move_map) ==
    IF op[1] = "delete"
    THEN \E e \in char_move_map : e[1] = <<op[2], op[3]>>
    ELSE IF op[1] = "insert"
    THEN \E e \in char_move_map : op[4] >= e[2][1] /\ op[5] <= e[2][2]
    ELSE FALSE

\* the spans and mappings computed on the way, and the classified opcodes
\* <<tag, orig_start, orig_end, mod_start, mod_end, is_move>>
_classify_operations_with_moves(opcodes, original_text, modified_text, original_tokens, modified_tokens, shingle_size, jaccard_threshold, min_move_span_tokens) ==
    LET dspans == ExtractSpans(opcodes, "delete", original_text,
                               original_tokens, <<>>)
        ispans == ExtractSpans(opcodes, "insert", modified_text,
                               modified_tokens, <<>>)
        mappings == _detect_moves_shingled(dspans, ispans, shingle_size,
                                           jaccard_threshold,
                                           min_move_span_tokens)
        char_move_map == CharMoveMap(mappings, dspans, ispans)
    IN  [deleted_spans |-> dspans,
         inserted_spans |-> ispans,
         move_mappings |-> mappings,
         classified |-> [k \in 1..Len(opcodes) |->
                            Append(opcodes[k],
                                   IsMove(opcodes[k], char_move_map))]]

-----------------------------------------------------------------------------
(* The document tree: nodes are [tag, text, children] *)

RunNode(text) == [tag |-> "r", text |-> text, children |-> <<>>]

ParagraphNode(para) ==
    [tag |-> "p", text |-> <<>>,
     children |-> [k \in 1..Len(para.runs) |-> RunNode(para.runs[k])]]

\* the body of the document that load_docx returns for the paragraphs
DocumentOf(paragraphs) ==
    [tag |-> "body", text |-> <<>>,
     children |-> [k \in 1..Len(paragraphs) |-> ParagraphNode(paragraphs[k])]]

\* ooxml_rewriter.apply_revision_tracking
apply_revision_tracking(original_doc, diff_result, force_brand_colors) ==
    original_doc

\* the text of a tree once the subtrees with a tag in removed are stripped
RECURSIVE NodeText(_, _)
RECURSIVE NodesText(_, _)
NodeText(node, removed) ==
    IF node.tag \in removed THEN <<>>
    ELSE node.text \o NodesText(node.children, removed)

NodesText(nodes, removed) ==
    IF nodes = <<>> THEN <<>>
    ELSE NodeText(Head(nodes), removed) \o NodesText(Tail(nodes), removed)

\* the text of a paragraph list
RECURSIVE ParagraphsText(_)
ParagraphsText(paragraphs) ==
    IF paragraphs = <<>> THEN <<>>
    ELSE Head(paragraphs).text \o ParagraphsText(Tail(paragraphs))

-----------------------------------------------------------------------------
(* XML elements: [tag, attrs, text, children]; attrs is a function from     *)
(* attribute names to values                                                *)

Element(tag, attrs, text, children) ==
    [tag |-> tag, attrs |-> attrs, text |-> text, children |-> children]

\* OxmlElement("w:tag")
OxmlElement(tag) == Element(tag, <<>>, <<>>, <<>>)

\* element.set(name, value)
SetAttr(element, name, value) ==
    [element EXCEPT !.attrs = (name :> value) @@ @]

\* element.append(child)
AppendChild(element, child) ==
    [element EXCEPT !.children = Append(@, child)]

\* the positions (1-based, in document order) of the children with the tag:
\* element.findall("./w:tag")
ChildPositions(element, tag) ==
    SelectSeq([k \in 1..Len(element.children) |-> k],
              LAMBDA k : element.children[k].tag = tag)

\* the children with the tag
FindAll(element, tag) ==
    LET ps == ChildPositions(element, tag)
    IN  [k \in 1..Len(ps) |-> element.children[ps[k]]]

-----------------------------------------------------------------------------
(* ooxml_layer.py: enumerate_runs and enumerate_paragraphs *)

\* "".join(text_parts): the text of the <w:t> children of a run
RunText(run_element) ==
    LET ts == FindAll(run_element, "t")
    IN  Concat([k \in 1..Len(ts) |-> ts[k].text])

\* python-docx Run.text: the <w:t> text, with "\t" for a <w:tab> child and
\* "\n" for a <w:br> or <w:cr> child
DocxRunText(run_element) ==
    Concat([k \in 1..Len(run_element.children) |->
               LET c == run_element.children[k]
               IN  IF c.tag = "t" THEN c.text
                   ELSE IF c.tag = "tab" THEN <<"\t">>
                   ELSE IF c.tag \in {"br", "cr"} THEN <<"\n">>
                   ELSE <<>>])

\* python-docx Paragraph.text: the texts of the runs, concatenated
DocxParagraphText(p) ==
    LET rs == FindAll(p, "r")
    IN  Concat([k \in 1..Len(rs) |-> DocxRunText(rs[k])])

\* the <w:rPr> of the run, or an empty one
_get_run_properties_xml(run_element) ==
    LET rPr == FindAll(run_element, "rPr")
    IN  IF rPr # <<>> THEN rPr[1] ELSE OxmlElement("rPr")

\* the loop of enumerate_runs over the <w:r> children
RECURSIVE EnumerateRunsLoop(_, _)
EnumerateRunsLoop(run_elements, current_pos) ==
    IF run_elements = <<>> THEN <<>>
    ELSE LET run_element == Head(run_elements)
             run_text == RunText(run_element)
         IN  << [text |-> run_text,
                 rPr_xml |-> _get_run_properties_xml(run_element),
                 start_pos |-> current_pos,
                 xml_element |-> run_element] >>
               \o EnumerateRunsLoop(Tail(run_elements),
                                    current_pos + Len(run_text))

enumerate_runs(paragraph) == EnumerateRunsLoop(FindAll(paragraph, "r"), 0)

\* hashlib.sha1(...).hexdigest(), kept as the digest of its argument
Sha1(sig_str) == <<"sha1", sig_str>>

\* the paragraphs of the model carry at most a pStyle in their <w:pPr>
_compute_style_signature(paragraph_element) ==
    LET pPr == FindAll(paragraph_element, "pPr")
        pStyle == IF pPr = <<>> THEN <<>> ELSE FindAll(pPr[1], "pStyle")
        props == IF pStyle = <<>> THEN <<>>
                 ELSE << <<"pStyle:", Get(pStyle[1].attrs, "val", "")>> >>
    IN  Sha1(props)

\* the ParagraphInfo of a single paragraph block
enumerate_paragraphs(block) ==
    LET block_text == DocxParagraphText(block)
    IN  [text |-> block_text,
         normalized |-> normalize_for_compare(block_text),
         runs |-> enumerate_runs(block),
         style_sig |-> _compute_style_signature(block),
         xml_element |-> block]

-----------------------------------------------------------------------------
(* ooxml_rewriter.py *)

COLOR_DELETE == <<185, 28, 28>>

COLOR_MOVE == <<6, 95, 70>>

HexDigits ==
    <<"0", "1", "2", "3", "4", "5", "6", "7", "8", "9",
      "a", "b", "c", "d", "e", "f">>

\* f"{color.r:02x}{color.g:02x}{color.b:02x}"
HexColor(color) ==
    [k \in 1..6 |->
        LET byte == color[(k + 1) \div 2]
        IN  IF k % 2 = 1 THEN HexDigits[(byte \div 16) + 1]
            ELSE HexDigits[(byte % 16) + 1]]

\* date.isoformat(), dates being points of the clock
Isoformat(date) == <<"iso", date>>

\* the run with a <w:rPr> child, inserted first when missing
_ensure_rPr(run_element) ==
    IF ChildPositions(run_element, "rPr") # <<>> THEN run_element
    ELSE [run_element EXCEPT !.children = <<OxmlElement("rPr")>> \o @]

\* the element with a child of the tag (appended when missing) whose val
\* attribute is val
SetValChild(element, tag, val) ==
    LET e == IF ChildPositions(element, tag) # <<>> THEN element
             ELSE AppendChild(element, OxmlElement(tag))
        pos == ChildPositions(e, tag)[1]
    IN  [e EXCEPT !.children[pos] = SetAttr(@, "val", val)]

_apply_brand_color(run_element, color) ==
    LET r == _ensure_rPr(run_element)
        pos == ChildPositions(r, "rPr")[1]
    IN  [r EXCEPT !.children[pos] = SetValChild(@, "color", HexColor(color))]

\* rPr = _ensure_rPr(run_elem); strike.set("w:val", "1")
AddStrike(run_element) ==
    LET r == _ensure_rPr(run_element)
        pos == ChildPositions(r, "rPr")[1]
    IN  [r EXCEPT !.children[pos] = SetValChild(@, "strike", "1")]

\* the loop over findall(".//w:r"): brand colour (and strike-through) on every
\* run of the subtree
RECURSIVE BrandRuns(_, _, _)
BrandRuns(element, color, strike) ==
    LET e == [element EXCEPT !.children =
                 [k \in 1..Len(element.children) |->
                     BrandRuns(element.children[k], color, strike)]]
    IN  IF e.tag # "r" THEN e
        ELSE IF strike THEN AddStrike(_apply_brand_color(e, color))
        ELSE _apply_brand_color(e, color)

\* the loop that finds the text element to split: (split_elem_idx,
\* split_elem_offset), both 0 when no text element reaches past char_offset
RECURSIVE SplitPoint(_, _, _, _)
SplitPoint(text_elements, char_offset, idx, current_pos) ==
    IF idx >= Len(text_elements) THEN <<0, 0>>
    ELSE LET text_len == Len(At(text_elements, idx).text)
         IN  IF current_pos + text_len > char_offset
             THEN <<idx, char_offset - current_pos>>
             ELSE SplitPoint(text_elements, char_offset, idx + 1,
                             current_pos + text_len)

\* text_elements[split_elem_idx + 1:], as positions among the children
RemainingPositions(text_positions, split_elem_idx) ==
    PySlice(text_positions, split_elem_idx + 1, Len(text_positions))

\* right_run.append(rPr_copy): right_run is an element of the document tree
\* (lxml, made by OxmlElement) and rPr_copy an xml.etree.ElementTree element
\* (made by ET.fromstring), which lxml's append refuses with a TypeError
TypeError == [kind |-> "TypeError"]

\* returns <<left_run, right_run>>, or TypeError when the run has a <w:rPr>:
\* the copy is appended before the run is changed
split_run_at_boundary(run_element, char_offset) ==
    LET text_positions == ChildPositions(run_element, "t")
        text_elements == FindAll(run_element, "t")
        rPr == FindAll(run_element, "rPr")
        empty_right == OxmlElement("r")
    IN  IF rPr # <<>> THEN TypeError
        ELSE IF text_elements = <<>> THEN <<run_element, empty_right>>
        ELSE LET at == SplitPoint(text_elements, char_offset, 0, 0)
                 split_elem_idx == at[1]
                 split_elem_offset == at[2]
             IN  IF split_elem_idx < Len(text_elements)
                 THEN LET t_pos == At(text_positions, split_elem_idx)
                          t_text == run_element.children[t_pos].text
                          left_text == PySlice(t_text, 0, split_elem_offset)
                          right_text == PySlice(t_text, split_elem_offset,
                                                Len(t_text))
                          remaining == RemainingPositions(text_positions,
                                                          split_elem_idx)
                          moved == {remaining[k] : k \in 1..Len(remaining)}
                          updated == [run_element EXCEPT
                                         !.children[t_pos].text = left_text]
                          left_run ==
                              [updated EXCEPT !.children =
                                  SelectSeq(
                                      [k \in 1..Len(updated.children) |->
                                          <<k, updated.children[k]>>],
                                      LAMBDA c : c[1] \notin moved)]
                          with_right_t ==
                              IF right_text # <<>>
                              THEN AppendChild(empty_right,
                                       Element("t", <<>>, right_text, <<>>))
                              ELSE empty_right
                      IN  << [left_run EXCEPT !.children =
                                 [k \in 1..Len(left_run.children) |->
                                     left_run.children[k][2]]],
                             [with_right_t EXCEPT !.children =
                                 @ \o [k \in 1..Len(remaining) |->
                                          run_element.children[remaining[k]]]] >>
                 ELSE <<run_element, empty_right>>

\* date = datetime.now() when no date is given
DateOrNow(date, now) == IF date = None THEN now ELSE date

\* returns the <w:del> wrapper that holds the element
wrap_with_del(element, author, date, now, force_brand_color) ==
    LET dele == AppendChild(
                    SetAttr(SetAttr(OxmlElement("del"), "author", author),
                            "date", Isoformat(DateOrNow(date, now))),
                    element)
    IN  IF force_brand_color THEN BrandRuns(dele, COLOR_DELETE, TRUE)
        ELSE dele

\* the run holding one <w:t> with the text
TextRun(run_text) ==
    AppendChild(OxmlElement("r"), Element("t", <<>>, run_text, <<>>))

\* returns <<move_from, move_to>>
create_move_pair(move_from_text, move_to_text, author, date, now, force_brand_color) ==
    LET stamp == Isoformat(DateOrNow(date, now))
        move_from == SetAttr(SetAttr(OxmlElement("moveFrom"), "author", author),
                             "date", stamp)
        move_to == SetAttr(SetAttr(OxmlElement("moveTo"), "author", author),
                           "date", stamp)
        move_from_run == IF force_brand_color
                         THEN _apply_brand_color(TextRun(move_from_text),
                                                 COLOR_MOVE)
                         ELSE TextRun(move_from_text)
        move_to_run == IF force_brand_color
                       THEN _apply_brand_color(TextRun(move_to_text),
                                               COLOR_MOVE)
                       ELSE TextRun(move_to_text)
    IN  <<AppendChild(move_from, move_from_run),
          AppendChild(move_to, move_to_run)>>

-----------------------------------------------------------------------------
\* window=15 of the n-gram indices of run_compare
NgramWindow == 15

-----------------------------------------------------------------------------
(* difflib.SequenceMatcher(a, b, autojunk=False).get_opcodes(), as the legacy
   HTML path calls it: opcodes are <<tag, i1, i2, j1, j2>> *)

\* the longest block a[i:i+k] = b[j:j+k] inside a[alo:ahi] and b[blo:bhi]; of
\* the longest blocks the one that starts earliest in a and, of those, the
\* one that starts earliest in b (the first that the loops over a and over
\* the places of each element in b find): <<besti, bestj, bestsize>>.
\* The blocks and the greatest size are bound as elements of one-element
\* sets, which computes them once.
find_longest_match(a, b, alo, ahi, blo, bhi) ==
    LET RECURSIVE MatchLen(_, _)
        MatchLen(p, q) ==
            IF p < ahi /\ q < bhi /\ At(a, p) = At(b, q)
            THEN 1 + MatchLen(p + 1, q + 1) ELSE 0
        Greatest(sizes) == CHOOSE k \in sizes : \A l \in sizes : k >= l
        First(longest) ==
            CHOOSE x \in longest :
                \A y \in longest :
                    x[1] < y[1] \/ (x[1] = y[1] /\ x[2] <= y[2])
    IN  CHOOSE best \in
            UNION {{IF bestsize = 0 THEN <<alo, blo, 0>>
                    ELSE First({x \in blocks : x[3] = bestsize}) :
                       bestsize \in {Greatest({x[3] : x \in blocks}
                                                \union {0})}} :
                   blocks \in {{<<c[1], c[2], MatchLen(c[1], c[2])>> :
                                   c \in (alo..(ahi - 1))
                                             \X (blo..(bhi - 1))}}} : TRUE

\* get_matching_blocks without the sentinel: the longest block, and the blocks
\* to its left and to its right, in order (without junk no two are adjacent)
RECURSIVE MatchingBlocks(_, _, _, _, _, _)
MatchingBlocks(a, b, alo, ahi, blo, bhi) ==
    LET Around(x) ==
            IF x[3] = 0 THEN <<>>
            ELSE (IF alo < x[1] /\ blo < x[2]
                  THEN MatchingBlocks(a, b, alo, x[1], blo, x[2]) ELSE <<>>)
                   \o <<x>>
                   \o (IF x[1] + x[3] < ahi /\ x[2] + x[3] < bhi
                       THEN MatchingBlocks(a, b, x[1] + x[3], ahi,
                                           x[2] + x[3], bhi)
                       ELSE <<>>)
    IN  CHOOSE blocks \in
            {Around(x) : x \in {find_longest_match(a, b, alo, ahi, blo, bhi)}} :
                TRUE

\* the loop of get_opcodes over the matching blocks, from position (i, j)
RECURSIVE OpcodesFrom(_, _, _)
OpcodesFrom(blocks, i, j) ==
    IF blocks = <<>> THEN <<>>
    ELSE LET ai == Head(blocks)[1]
             bj == Head(blocks)[2]
             size == Head(blocks)[3]
             tag == IF i < ai /\ j < bj THEN "replace"
                    ELSE IF i < ai THEN "delete"
                    ELSE IF j < bj THEN "insert"
                    ELSE ""
         IN  (IF tag # "" THEN << <<tag, i, ai, j, bj>> >> ELSE <<>>)
               \o (IF size > 0
                   THEN << <<"equal", ai, ai + size, bj, bj + size>> >>
                   ELSE <<>>)
               \o OpcodesFrom(Tail(blocks), ai + size, bj + size)

get_opcodes(a, b) ==
    OpcodesFrom(Append(MatchingBlocks(a, b, 0, Len(a), 0, Len(b)),
                       <<Len(a), Len(b), 0>>), 0, 0)

-----------------------------------------------------------------------------
(* The legacy HTML path: run_compare *)

\* html.escape of a string
html_escape(s) ==
    Concat([k \in 1..Len(s) |->
               IF s[k] = "&" THEN <<"&", "a", "m", "p", ";">>
               ELSE IF s[k] = "<" THEN <<"&", "l", "t", ";">>
               ELSE IF s[k] = ">" THEN <<"&", "g", "t", ";">>
               ELSE IF s[k] = "\"" THEN <<"&", "q", "u", "o", "t", ";">>
               ELSE IF s[k] = "'" THEN <<"&", "#", "x", "2", "7", ";">>
               ELSE <<s[k]>>])

_char_ngrams(text, window) ==
    IF window <= 0 \/ text = <<>> \/ Len(text) < window THEN {}
    ELSE {PySlice(text, i, i + window) : i \in 0..(Len(text) - window)}

_build_ngram_index(paragraphs, window) ==
    UNION {_char_ngrams(normalize_for_compare(paragraphs[k].text), window) :
              k \in 1..Len(paragraphs)}

\* a variant that leaves the deleted segment of a replace out
HtmlParts_nodel(op, tokens_a, tokens_b, mod_index, orig_index) ==
    IF op[1] = "delete"
    THEN <<[cls |-> "diff-delete line-through",
            text |-> html_escape(Concat(PySlice(tokens_a, op[2], op[3])))]>>
    ELSE <<[cls |-> IF op[1] = "equal" THEN "" ELSE "diff-insert",
            text |-> html_escape(Concat(PySlice(tokens_b, op[4], op[5])))]>>

\* what one opcode appends to html_parts: <span class="cls">escaped seg</span>
\* is [cls, text], the escaped text of an equal block has the class ""
HtmlParts(op, tokens_a, tokens_b, mod_index, orig_index) ==
    LET Span(cls, seg) == [cls |-> cls, text |-> html_escape(seg)]
        del_seg == Concat(PySlice(tokens_a, op[2], op[3]))
        ins_seg == Concat(PySlice(tokens_b, op[4], op[5]))
        del_span == Span(IF del_seg \in mod_index
                         THEN "diff-move line-through"
                         ELSE "diff-delete line-through", del_seg)
        ins_span == Span(IF ins_seg \in orig_index
                         THEN "diff-move" ELSE "diff-insert", ins_seg)
    IN  IF op[1] = "equal" THEN <<Span("", ins_seg)>>
        ELSE IF op[1] = "replace"
        THEN (IF del_seg # <<>> THEN <<del_span>> ELSE <<>>)
               \o (IF ins_seg # <<>> THEN <<ins_span>> ELSE <<>>)
        ELSE IF op[1] = "delete" THEN <<del_span>>
        ELSE <<ins_span>>

\* returns the parts of the HTML string and the three counters: a counter goes
\* up by one with every span of its classes
_classify_and_wrap(tokens_a, tokens_b, mod_index, orig_index) ==
    LET Parts(opcodes) ==
            Concat([k \in 1..Len(opcodes) |->
                       HtmlParts(opcodes[k], tokens_a, tokens_b, mod_index,
                                 orig_index)])
        Spans(html_parts, classes) ==
            Cardinality({k \in 1..Len(html_parts) :
                            html_parts[k].cls \in classes})
    IN  CHOOSE returned \in
            UNION {{[html |-> html_parts,
                     insertions |-> Spans(html_parts, {"diff-insert"}),
                     deletions |-> Spans(html_parts,
                                         {"diff-delete line-through"}),
                     moves |-> Spans(html_parts, {"diff-move",
                                                  "diff-move line-through"})] :
                       html_parts \in {Parts(opcodes)}} :
                   opcodes \in {get_opcodes(tokens_a, tokens_b)}} : TRUE

\* a variant that never pairs the paragraphs of a replace block
_align_paragraphs_gaps(original, modified) ==
    [k \in 1..(Len(original) + Len(modified)) |->
        IF k <= Len(original) THEN <<k - 1, -1>>
        ELSE <<-1, k - Len(original) - 1>>]

_align_paragraphs(original, modified) ==
    LET a_norm == [k \in 1..Len(original) |->
                      normalize_for_compare(original[k].text)]
        b_norm == [k \in 1..Len(modified) |->
                      normalize_for_compare(modified[k].text)]
        PairsOf(op) ==
            LET len_a == op[3] - op[2]
                len_b == op[5] - op[4]
                m == IF op[1] \in {"equal", "replace"}
                     THEN Min2(len_a, len_b) ELSE 0
            IN  [off \in 1..m |-> <<op[2] + off - 1, op[4] + off - 1>>]
                  \o [off \in 1..(len_a - m) |-> <<op[2] + m + off - 1, -1>>]
                  \o [off \in 1..(len_b - m) |-> <<-1, op[4] + m + off - 1>>]
        Pairs(opcodes) == Concat([k \in 1..Len(opcodes) |-> PairsOf(opcodes[k])])
    IN  CHOOSE pairs \in
            {Pairs(opcodes) : opcodes \in {get_opcodes(a_norm, b_norm)}} : TRUE

-----------------------------------------------------------------------------
(* Inputs of the model *)

StyleHeading == <<"0">>

StyleNormal == <<"1">>

\* the paragraphs of the documents compared by run_compare_ooxml
DocParagraphs ==
    {ParagraphInfo(<< <<"a", " ">>, <<"c", " ", "b">> >>, StyleNormal),
     ParagraphInfo(<< <<"a", " ", "b">> >>, StyleNormal),
     ParagraphInfo(<< <<"a", " ", "b">> >>, StyleHeading),
     ParagraphInfo(<< <<" ", "a">> >>, StyleNormal),
     ParagraphInfo(<< <<"a", " ">> >>, StyleNormal)}

\* the paragraphs of the longer documents given to the aligner alone
AlignerParagraphs ==
    {ParagraphInfo(<< <<"a", " ", "b">> >>, StyleNormal),
     ParagraphInfo(<< <<"a", " ", "b">> >>, StyleHeading),
     ParagraphInfo(<< <<"c">> >>, StyleNormal)}

\* options.get(...) with the defaults of run_compare_ooxml
DefaultOptions ==
    [shingle_size |-> 5, jaccard_threshold |-> <<17, 20>>,
     min_move_span_tokens |-> 12, force_brand_colors |-> FALSE]

DocOptions ==
    {DefaultOptions,
     [DefaultOptions EXCEPT !.min_move_span_tokens = 5],
     [DefaultOptions EXCEPT !.shingle_size = 1, !.min_move_span_tokens = 1]}

\* all lists over S of at most n elements
SeqsUpTo(S, n) == UNION {[1..k -> S] : k \in 0..n}

\* the token lists of the spans given to the move detector alone
SpanTokenLists ==
    {<<>>,
     << <<"a">> >>,
     << <<"b">> >>,
     << <<"a">>, <<"b">> >>,
     << <<"b">>, <<"a">> >>,
     << <<"a">>, <<"a">>, <<"b">> >>}

\* span lists as _classify_operations_with_moves builds them: start and end
\* hold the position of the span in its list
SpanLists ==
    {[k \in 1..Len(ts) |-> <<Concat(ts[k]), ts[k], k - 1, k - 1>>] :
        ts \in SeqsUpTo(SpanTokenLists, MaxSpans)}

MoveOptions ==
    {[DefaultOptions EXCEPT !.shingle_size = 1, !.min_move_span_tokens = 2,
                            !.jaccard_threshold = <<1, 2>>],
     [DefaultOptions EXCEPT !.shingle_size = 2, !.min_move_span_tokens = 2,
                            !.jaccard_threshold = <<1, 2>>],
     [DefaultOptions EXCEPT !.shingle_size = 1, !.min_move_span_tokens = 1,
                            !.jaccard_threshold = <<17, 20>>],
     [DefaultOptions EXCEPT !.shingle_size = 1, !.min_move_span_tokens = 1,
                            !.jaccard_threshold = <<0, 1>>],
     [DefaultOptions EXCEPT !.shingle_size = 2, !.min_move_span_tokens = 1,
                            !.jaccard_threshold = <<1, 2>>]}

-----------------------------------------------------------------------------
(* run_compare_ooxml *)

NoResult == [kind |-> "none"]

\* the variables of the OOXML functions and of the tokenizer when they are not
\* modelled
InitXmlIdle ==
    /\ p_element = NoResult
    /\ xml_call = NoResult
    /\ xml_result = NoResult
    /\ move_pairs = <<>>

InitTextIdle ==
    /\ tok_text = <<>>
    /\ tok_result = <<>>

InitCallIdle ==
    /\ fn_call = NoResult
    /\ fn_result = NoResult

InitLocals ==
    /\ para_pairs = <<>>
    /\ pair_pos = 0
    /\ total_insertions = 0
    /\ total_deletions = 0
    /\ total_moves = 0
    /\ revision_operations = <<>>
    /\ moves_detected = 0
    /\ result = NoResult
    /\ deleted_spans = <<>>
    /\ inserted_spans = <<>>
    /\ move_mappings = <<>>
    /\ dmp_results = <<>>
    /\ first_run = NoResult

Init ==
    /\ pc = "align"
    /\ orig_paragraphs \in SeqsUpTo(DocParagraphs, MaxDocParas)
    /\ mod_paragraphs \in SeqsUpTo(DocParagraphs, MaxDocParas)
    /\ options \in DocOptions
    /\ InitLocals
    /\ InitXmlIdle
    /\ InitTextIdle
    /\ InitCallIdle

\* para_pairs = _align_paragraphs_patience(orig_paragraphs, mod_paragraphs);
\* an IndexError of the aligner leaves run_compare_ooxml
AlignParagraphs ==
    /\ pc = "align"
    /\ LET aligned == _align_paragraphs_patience(orig_paragraphs,
                                                 mod_paragraphs)
       IN  IF aligned.raised
           THEN /\ pc' = "raised"
                /\ result' = [kind |-> "IndexError"]
                /\ UNCHANGED para_pairs
           ELSE /\ pc' = "pairs"
                /\ para_pairs' = aligned.pairs
                /\ UNCHANGED result
    /\ UNCHANGED <<orig_paragraphs, mod_paragraphs, options, pair_pos,
                   total_insertions, total_deletions, total_moves,
                   revision_operations, moves_detected, deleted_spans,
                   inserted_spans, move_mappings>>
    /\ UNCHANGED <<xmlVars, textVars, dmp_results, first_run, callVars>>

\* number of opcodes of classified with the tag and the is_move flag given
RECURSIVE CountOps(_, _, _)
CountOps(classified, tag, is_move) ==
    IF classified = <<>> THEN 0
    ELSE (IF Head(classified)[1] = tag /\ Head(classified)[6] = is_move
          THEN 1 ELSE 0) + CountOps(Tail(classified), tag, is_move)

\* a variant in which diff_main may return another result for the same pair
\* of strings
SameDiff_any(results, key, opcodes) == TRUE

\* dmp.Diff_Timeout = 0: diff_main has no deadline and is a function of its
\* two strings, so a pair diffed before gets the opcodes it got then
SameDiff(results, key, opcodes) ==
    key \in DOMAIN results => opcodes = results[key]

\* one iteration of the loop over para_pairs
ProcessPair ==
    /\ pc = "pairs"
    /\ pair_pos < Len(para_pairs)
    /\ pair_pos' = pair_pos + 1
    /\ LET orig_idx == At(para_pairs, pair_pos)[1]
           mod_idx == At(para_pairs, pair_pos)[2]
       IN  IF orig_idx < 0
           THEN \* pure insertion
                /\ revision_operations' =
                       Append(revision_operations,
                              [kind |-> "insert", para_idx |-> mod_idx])
                /\ total_insertions' = total_insertions + 1
                /\ UNCHANGED <<total_deletions, total_moves, moves_detected,
                               deleted_spans, inserted_spans, move_mappings,
                               dmp_results>>
           ELSE IF mod_idx < 0
           THEN \* pure deletion
                /\ revision_operations' =
                       Append(revision_operations,
                              [kind |-> "delete", para_idx |-> orig_idx])
                /\ total_deletions' = total_deletions + 1
                /\ UNCHANGED <<total_insertions, total_moves, moves_detected,
                               deleted_spans, inserted_spans, move_mappings,
                               dmp_results>>
           ELSE LET orig_para == At(orig_paragraphs, orig_idx)
                    mod_para == At(mod_paragraphs, mod_idx)
                IN  IF orig_para.text = mod_para.text
                    THEN \* no changes
                         UNCHANGED <<revision_operations, total_insertions,
                                     total_deletions, total_moves,
                                     moves_detected, deleted_spans,
                                     inserted_spans, move_mappings,
                                     dmp_results>>
                    ELSE \E opcodes \in _diff_runs_inline(orig_para.runs,
                                                          mod_para.runs) :
                           LET key == <<TokenStr(orig_para.runs),
                                        TokenStr(mod_para.runs)>>
                               c == _classify_operations_with_moves(
                                        opcodes, orig_para.text, mod_para.text,
                                        tokenize_for_diff(orig_para.text, "word"),
                                        tokenize_for_diff(mod_para.text, "word"),
                                        options.shingle_size,
                                        options.jaccard_threshold,
                                        options.min_move_span_tokens)
                           IN  /\ SameDiff(dmp_results, key, opcodes)
                               /\ dmp_results' = (key :> opcodes) @@ dmp_results
                               /\ total_insertions' = total_insertions
                                      + CountOps(c.classified, "insert", FALSE)
                               /\ total_deletions' = total_deletions
                                      + CountOps(c.classified, "delete", FALSE)
                               /\ total_moves' = total_moves
                                      + CountOps(c.classified, "insert", TRUE)
                                      + CountOps(c.classified, "delete", TRUE)
                               /\ revision_operations' =
                                      Append(revision_operations,
                                             [kind |-> "replace",
                                              orig_para_idx |-> orig_idx,
                                              mod_para_idx |-> mod_idx,
                                              operations |-> c.classified])
                               /\ moves_detected' = moves_detected
                                      + Cardinality(DOMAIN c.move_mappings)
                               /\ deleted_spans' = c.deleted_spans
                               /\ inserted_spans' = c.inserted_spans
                               /\ move_mappings' = c.move_mappings
    /\ UNCHANGED <<pc, orig_paragraphs, mod_paragraphs, options, para_pairs,
                   result>>
    /\ UNCHANGED <<xmlVars, textVars, first_run, callVars>>

\* the statements after the loop: stats, apply_revision_tracking, the result
BuildResult ==
    /\ pc = "pairs"
    /\ pair_pos = Len(para_pairs)
    /\ pc' = "done"
    /\ result' =
           [kind |-> "ok",
            stats |-> [insertions |-> total_insertions,
                       deletions |-> total_deletions,
                       moves |-> total_moves,
                       total |-> total_insertions + total_deletions
                                   + total_moves],
            document |-> apply_revision_tracking(
                             DocumentOf(orig_paragraphs),
                             [operations |-> revision_operations,
                              pairs |-> para_pairs],
                             options.force_brand_colors),
            meta |-> [pairs |-> para_pairs,
                      revision_operations |-> Len(revision_operations)]]
    /\ UNCHANGED <<orig_paragraphs, mod_paragraphs, options, para_pairs,
                   pair_pos, total_insertions, total_deletions, total_moves,
                   revision_operations, moves_detected, deleted_spans,
                   inserted_spans, move_mappings>>
    /\ UNCHANGED <<xmlVars, textVars, dmp_results, first_run, callVars>>

Next == AlignParagraphs \/ ProcessPair \/ BuildResult

Spec == Init /\ [][Next]_vars

-----------------------------------------------------------------------------
(* run_compare_ooxml called with options out of range *)

\* a negative shingle size, a threshold above 1, a threshold below 0
BadOptions ==
    {[DefaultOptions EXCEPT !.shingle_size = -1, !.min_move_span_tokens = 1],
     [DefaultOptions EXCEPT !.jaccard_threshold = <<3, 2>>,
                            !.shingle_size = 1, !.min_move_span_tokens = 1],
     [DefaultOptions EXCEPT !.jaccard_threshold = <<-1, 2>>,
                            !.shingle_size = 1, !.min_move_span_tokens = 1]}

InitOptions ==
    /\ pc = "align"
    /\ orig_paragraphs \in SeqsUpTo(DocParagraphs, MaxDocParas)
    /\ mod_paragraphs \in SeqsUpTo(DocParagraphs, MaxDocParas)
    /\ options \in BadOptions
    /\ InitLocals
    /\ InitXmlIdle
    /\ InitTextIdle
    /\ InitCallIdle

SpecOptions == InitOptions /\ [][Next]_vars

-----------------------------------------------------------------------------
(* run_compare_ooxml called twice on the same documents and options *)

TwiceOptions ==
    {[DefaultOptions EXCEPT !.shingle_size = 1, !.min_move_span_tokens = 1]}

InitTwice ==
    /\ pc = "align"
    /\ orig_paragraphs \in SeqsUpTo(DocParagraphs, MaxDocParas)
    /\ mod_paragraphs \in SeqsUpTo(DocParagraphs, MaxDocParas)
    /\ options \in TwiceOptions
    /\ InitLocals
    /\ InitXmlIdle
    /\ InitTextIdle
    /\ InitCallIdle

\* what a run hands back: the pair list, the classified operations and the
\* returned dictionary (stats, document, meta) or the exception
RunOutputs ==
    [pairs |-> para_pairs,
     operations |-> revision_operations,
     result |-> result]

\* the first call has returned or raised; the second call starts with fresh
\* locals, as every call does (lines 829-834)
RunAgain ==
    /\ pc \in {"done", "raised"}
    /\ first_run = NoResult
    /\ first_run' = RunOutputs
    /\ pc' = "align"
    /\ para_pairs' = <<>>
    /\ pair_pos' = 0
    /\ total_insertions' = 0
    /\ total_deletions' = 0
    /\ total_moves' = 0
    /\ revision_operations' = <<>>
    /\ moves_detected' = 0
    /\ result' = NoResult
    /\ deleted_spans' = <<>>
    /\ inserted_spans' = <<>>
    /\ move_mappings' = <<>>
    /\ UNCHANGED <<orig_paragraphs, mod_paragraphs, options, dmp_results,
                   xmlVars, textVars, callVars>>

NextTwice == Next \/ RunAgain

SpecTwice == InitTwice /\ [][NextTwice]_vars

-----------------------------------------------------------------------------
(* The paragraph aligner on longer documents *)

InitAlign ==
    /\ pc = "align"
    /\ orig_paragraphs \in SeqsUpTo(AlignerParagraphs, MaxOrigParas)
    /\ mod_paragraphs \in SeqsUpTo(AlignerParagraphs, MaxModParas)
    /\ options = DefaultOptions
    /\ InitLocals
    /\ InitXmlIdle
    /\ InitTextIdle
    /\ InitCallIdle

NextAlign == AlignParagraphs

SpecAlign == InitAlign /\ [][NextAlign]_vars

-----------------------------------------------------------------------------
(* The move detector on arbitrary span lists *)

InitMoves ==
    /\ pc = "detect"
    /\ orig_paragraphs = <<>>
    /\ mod_paragraphs = <<>>
    /\ options \in MoveOptions
    /\ para_pairs = <<>>
    /\ pair_pos = 0
    /\ total_insertions = 0
    /\ total_deletions = 0
    /\ total_moves = 0
    /\ revision_operations = <<>>
    /\ moves_detected = 0
    /\ result = NoResult
    /\ deleted_spans \in SpanLists
    /\ inserted_spans \in SpanLists
    /\ move_mappings = <<>>
    /\ dmp_results = <<>>
    /\ first_run = NoResult
    /\ InitXmlIdle
    /\ InitTextIdle
    /\ InitCallIdle

\* move_mappings = _detect_moves_shingled(deleted_spans, inserted_spans, ...)
DetectMoves ==
    /\ pc = "detect"
    /\ pc' = "detected"
    /\ move_mappings' =
           _detect_moves_shingled(deleted_spans, inserted_spans,
                                  options.shingle_size,
                                  options.jaccard_threshold,
                                  options.min_move_span_tokens)
    /\ UNCHANGED <<orig_paragraphs, mod_paragraphs, options, para_pairs,
                   pair_pos, total_insertions, total_deletions, total_moves,
                   revision_operations, moves_detected, result, deleted_spans,
                   inserted_spans>>
    /\ UNCHANGED <<xmlVars, textVars, dmp_results, first_run, callVars>>

NextMoves == DetectMoves

SpecMoves == InitMoves /\ [][NextMoves]_vars

-----------------------------------------------------------------------------
(* The OOXML functions on one paragraph element *)

T(run_text) == Element("t", <<>>, run_text, <<>>)

Tab == OxmlElement("tab")

Br == OxmlElement("br")

RPrBold == AppendChild(OxmlElement("rPr"), OxmlElement("b"))

Run(children) == Element("r", <<>>, <<>>, children)

\* the runs of the paragraphs: no, one, two and three text children, with
\* and without <w:rPr>, <w:tab> and <w:br> children
RunElements ==
    {Run(<<>>),
     Run(<<T(<<"a">>)>>),
     Run(<<RPrBold, T(<<"a", "b">>)>>),
     Run(<<T(<<"a">>), T(<<"b">>)>>),
     Run(<<T(<<"a">>), Tab, T(<<"b">>)>>),
     Run(<<Tab>>),
     Run(<<T(<<>>), T(<<"a", "b">>)>>),
     Run(<<RPrBold, T(<<"a">>), Br, T(<<"b", "c">>), T(<<"c">>)>>)}

ParagraphElements ==
    {Element("p", <<>>, <<>>, rs) : rs \in SeqsUpTo(RunElements, MaxParaRuns)}

\* the default of the author parameter
DefaultAuthor == "Erik's Super Compare"

\* the values datetime.now() may return
Clock == {1, 2}

\* the variables of run_compare_ooxml when no comparison is modelled
InitCompareIdle ==
    /\ orig_paragraphs = <<>>
    /\ mod_paragraphs = <<>>
    /\ InitLocals

compareVars ==
    <<orig_paragraphs, mod_paragraphs, options, para_pairs, pair_pos,
      total_insertions, total_deletions, total_moves, revision_operations,
      moves_detected, result, deleted_spans, inserted_spans, move_mappings,
      dmp_results, first_run>>

InitXml ==
    /\ pc = "xml"
    /\ p_element \in ParagraphElements
    /\ options \in {DefaultOptions,
                    [DefaultOptions EXCEPT !.force_brand_colors = TRUE]}
    /\ xml_call = NoResult
    /\ xml_result = NoResult
    /\ move_pairs = <<>>
    /\ InitCompareIdle
    /\ InitTextIdle
    /\ InitCallIdle

\* xml_result = enumerate_paragraphs(p_element)
EnumerateParagraphs ==
    /\ pc = "xml"
    /\ pc' = "enumerated"
    /\ xml_call' = [op |-> "enumerate_paragraphs", block |-> p_element]
    /\ xml_result' = enumerate_paragraphs(p_element)
    /\ UNCHANGED <<p_element, move_pairs, compareVars, textVars, callVars>>

\* the paragraph with the child at position pos replaced by the elements
ReplaceChild(element, pos, elements) ==
    [element EXCEPT !.children =
        SubSeq(@, 1, pos - 1) \o elements \o SubSeq(@, pos + 1, Len(@))]

\* xml_result = split_run_at_boundary(run, char_offset) for a run of the
\* paragraph: the left run is the run itself, changed in place
SplitRun ==
    /\ pc = "xml"
    /\ \E k \in 1..Len(ChildPositions(p_element, "r")) :
           LET pos == ChildPositions(p_element, "r")[k]
               run_element == p_element.children[pos]
           IN  \E char_offset \in 0..Len(RunText(run_element)) :
                   LET halves == split_run_at_boundary(run_element,
                                                       char_offset)
                   IN  /\ xml_call' = [op |-> "split_run_at_boundary",
                                       run_element |-> run_element,
                                       char_offset |-> char_offset]
                       /\ xml_result' = halves
                       /\ IF halves = TypeError
                          THEN /\ pc' = "raised"
                               /\ UNCHANGED p_element
                          ELSE /\ pc' = "split"
                               /\ p_element' = ReplaceChild(p_element, pos,
                                                            <<halves[1]>>)
    /\ UNCHANGED <<move_pairs, compareVars, textVars, callVars>>

\* xml_result = wrap_with_del(run, date=date) for a run of the paragraph:
\* the run leaves its parent
WrapWithDel ==
    /\ pc = "xml"
    /\ \E k \in 1..Len(ChildPositions(p_element, "r")) :
           LET pos == ChildPositions(p_element, "r")[k]
               run_element == p_element.children[pos]
           IN  \E date \in {None} \union Clock, now \in Clock :
                   /\ date = None \/ date = now
                   /\ xml_call' = [op |-> "wrap_with_del",
                                   element |-> run_element,
                                   date |-> date]
                   /\ xml_result' =
                          wrap_with_del(run_element, DefaultAuthor, date, now,
                                        options.force_brand_colors)
                   /\ p_element' = ReplaceChild(p_element, pos, <<>>)
    /\ pc' = "wrapped"
    /\ UNCHANGED <<move_pairs, compareVars, textVars, callVars>>

\* one more call of create_move_pair in the same comparison, for a span moved
\* from the first run of the paragraph to the last
CreateMovePair ==
    /\ pc \in {"xml", "moves"}
    /\ Len(move_pairs) < MaxMovePairs
    /\ ChildPositions(p_element, "r") # <<>>
    /\ LET rs == FindAll(p_element, "r")
           move_from_text == RunText(rs[1])
           move_to_text == RunText(rs[Len(rs)])
       IN  \E date \in {None} \union Clock, now \in Clock :
               /\ date = None \/ date = now
               /\ xml_call' = [op |-> "create_move_pair",
                               move_from_text |-> move_from_text,
                               move_to_text |-> move_to_text,
                               date |-> date]
               /\ xml_result' =
                      create_move_pair(move_from_text, move_to_text,
                                       DefaultAuthor, date, now,
                                       options.force_brand_colors)
               /\ move_pairs' = Append(move_pairs, xml_result')
    /\ pc' = "moves"
    /\ UNCHANGED <<p_element, compareVars, textVars, callVars>>

NextXml == EnumerateParagraphs \/ SplitRun \/ WrapWithDel \/ CreateMovePair

SpecXml == InitXml /\ [][NextXml]_vars

-----------------------------------------------------------------------------
(* The tokenizer on arbitrary strings *)

\* word characters, whitespace and punctuation
TextChars == {"a", "B", " ", "\t", ".", ","}

InitText ==
    /\ pc = "text"
    /\ tok_text \in SeqsUpTo(TextChars, MaxTextLen)
    /\ tok_result = <<>>
    /\ options = DefaultOptions
    /\ InitCompareIdle
    /\ InitXmlIdle
    /\ InitCallIdle

\* tok_result = tokenize_preserve_spacing(tok_text)
Tokenize ==
    /\ pc = "text"
    /\ pc' = "tokenized"
    /\ tok_result' = tokenize_preserve_spacing(tok_text)
    /\ UNCHANGED <<tok_text, compareVars, xmlVars, callVars>>

NextText == Tokenize

SpecText == InitText /\ [][NextText]_vars

-----------------------------------------------------------------------------
(* The legacy HTML path on small documents *)

\* the texts of the paragraphs: the first word is as long as the n-gram window
LegacyTexts ==
    LET word == [k \in 1..NgramWindow |-> "a"]
    IN  {<<>>,
         <<"a", " ", "b">>,
         <<"a", " ", "c", " ", "b">>,
         <<"a", " ", "B">>,
         <<"a", " ", "<">>,
         word \o <<".">> \o word,
         <<".">> \o word,
         word \o <<".", "!">>,
         <<".", "!">> \o word}

LegacyDocuments ==
    {<<>>} \union {<<[text |-> t]>> : t \in LegacyTexts}
           \union {<<[text |-> <<"a", " ", "b">>], [text |-> t]>> :
                      t \in {<<"a", " ", "b">>, <<"a", " ", "<">>}}

InitLegacy ==
    /\ pc = "legacy"
    /\ orig_paragraphs \in LegacyDocuments
    /\ mod_paragraphs \in LegacyDocuments
    /\ options \in {[diffGranularity |-> g] : g \in {"word", "char", "line"}}
    /\ InitLocals
    /\ InitXmlIdle
    /\ InitTextIdle
    /\ InitCallIdle

\* result = run_compare(orig_paragraphs, mod_paragraphs, options): the html of
\* a paragraph is the list of the parts between <p> and </p>
RunCompare ==
    /\ pc = "legacy"
    /\ pc' = "compared"
    /\ \E orig_index \in {_build_ngram_index(orig_paragraphs, NgramWindow)},
          mod_index \in {_build_ngram_index(mod_paragraphs, NgramWindow)},
          pairs \in {_align_paragraphs(orig_paragraphs, mod_paragraphs)} :
          LET granularity == IF options.diffGranularity \in {"word", "char"}
                             THEN options.diffGranularity ELSE "word"
              Row(pair) ==
                  LET orig_text == IF pair[1] >= 0
                                   THEN At(orig_paragraphs, pair[1]).text
                                   ELSE <<>>
                      mod_text == IF pair[2] >= 0
                                  THEN At(mod_paragraphs, pair[2]).text
                                  ELSE <<>>
                  IN  IF orig_text = mod_text
                      THEN [html |-> <<[cls |-> "",
                                        text |-> html_escape(mod_text)]>>,
                            insertions |-> 0, deletions |-> 0, moves |-> 0]
                      ELSE CHOOSE row \in
                               {_classify_and_wrap(tokens_a, tokens_b,
                                                   mod_index, orig_index) :
                                   tokens_a \in {tokenize_for_diff(orig_text,
                                                                   granularity)},
                                   tokens_b \in {tokenize_for_diff(mod_text,
                                                                   granularity)}} :
                                   TRUE
              RECURSIVE Total(_, _, _)
              Total(rows, counter, k) ==
                  IF k = 0 THEN 0
                  ELSE Total(rows, counter, k - 1) + rows[k][counter]
          IN  \E rows \in {Concat([k \in 1..Len(pairs) |->
                                      <<Row(pairs[k])>>])} :
                  \E total_ins \in {Total(rows, "insertions", Len(rows))},
                     total_del \in {Total(rows, "deletions", Len(rows))},
                     total_mov \in {Total(rows, "moves", Len(rows))} :
                      result' =
                          [paragraphs |-> [k \in 1..Len(rows) |->
                                              [html |-> rows[k].html]],
                           stats |-> [insertions |-> total_ins,
                                      deletions |-> total_del,
                                      moves |-> total_mov,
                                      total |-> total_ins + total_del
                                                  + total_mov],
                           meta |-> [granularity |-> granularity,
                                     pairs |-> pairs]]
    /\ UNCHANGED <<orig_paragraphs, mod_paragraphs, options, para_pairs,
                   pair_pos, total_insertions, total_deletions, total_moves,
                   revision_operations, moves_detected, deleted_spans,
                   inserted_spans, move_mappings, dmp_results, first_run>>
    /\ UNCHANGED <<xmlVars, textVars, callVars>>

NextLegacy == RunCompare

SpecLegacy == InitLegacy /\ [][NextLegacy]_vars

-----------------------------------------------------------------------------
(* The helpers of the aligner and of the legacy path, each called on its own *)

\* lists of (value, index) tuples with distinct values and distinct indices
LisSequences ==
    LET Injections(n) ==
            {s \in [1..n -> 0..(MaxLisLen - 1)] :
                \A k, l \in 1..n : k # l => s[k] # s[l]}
    IN  UNION {{[k \in 1..n |-> <<vals[k], idxs[k]>>] :
                   vals \in Injections(n), idxs \in Injections(n)} :
               n \in 0..MaxLisLen}

\* two sequences of up to MaxSeqLen keys
SeqCalls(op) ==
    {[op |-> op, a |-> a, b |-> b] :
        a \in SeqsUpTo({"x", "y", "z"}, MaxSeqLen),
        b \in SeqsUpTo({"x", "y", "z"}, MaxSeqLen)}

\* two token lists, with and without segments that are in the n-gram indices
ClassifyCalls ==
    LET tokens == SeqsUpTo({<<"a">>, <<"b">>, <<"<">>}, MaxSeqLen)
        indices == {<<{}, {}>>,
                    <<{<<"a">>}, {<<"b">>, <<"a", "b">>}>>,
                    <<{<<"a">>, <<"b">>, <<"<">>}, {<<"a">>, <<"b">>, <<"<">>}>>}
    IN  {[op |-> "_classify_and_wrap", tokens_a |-> ta, tokens_b |-> tb,
          mod_index |-> ix[1], orig_index |-> ix[2]] :
            ta \in tokens, tb \in tokens, ix \in indices}

InitCalls ==
    /\ pc = "call"
    /\ fn_call \in SeqCalls("matches") \union SeqCalls("_myers_diff")
                     \union {[op |-> "_patience_lis", sequence |-> s] :
                                s \in LisSequences}
                     \union ClassifyCalls
    /\ fn_result = NoResult
    /\ options = DefaultOptions
    /\ InitCompareIdle
    /\ InitXmlIdle
    /\ InitTextIdle

\* the candidate match list of _align_patience_myers
BuildMatches ==
    /\ pc = "call" /\ fn_call.op = "matches"
    /\ pc' = "returned"
    /\ fn_result' = MatchLoop(fn_call.a, fn_call.b, 0, <<>>, {})
    /\ UNCHANGED <<fn_call, compareVars, xmlVars, textVars>>

PatienceLis ==
    /\ pc = "call" /\ fn_call.op = "_patience_lis"
    /\ pc' = "returned"
    /\ fn_result' = _patience_lis(fn_call.sequence)
    /\ UNCHANGED <<fn_call, compareVars, xmlVars, textVars>>

MyersDiff ==
    /\ pc = "call" /\ fn_call.op = "_myers_diff"
    /\ pc' = "returned"
    /\ fn_result' = _myers_diff(fn_call.a, fn_call.b)
    /\ UNCHANGED <<fn_call, compareVars, xmlVars, textVars>>

ClassifyAndWrap ==
    /\ pc = "call" /\ fn_call.op = "_classify_and_wrap"
    /\ pc' = "returned"
    /\ fn_result' = _classify_and_wrap(fn_call.tokens_a, fn_call.tokens_b,
                                       fn_call.mod_index, fn_call.orig_index)
    /\ UNCHANGED <<fn_call, compareVars, xmlVars, textVars>>

NextCalls == BuildMatches \/ PatienceLis \/ MyersDiff \/ ClassifyAndWrap

SpecCalls == InitCalls /\ [][NextCalls]_vars

-----------------------------------------------------------------------------
(* Properties of the paragraph aligner, checked under SpecAlign *)

\* the non-gap entries of component c (1: original, 2: modified) of a pair list
NonGaps(pairs, c) ==
    SelectSeq([k \in 1..Len(pairs) |-> pairs[k][c]], LAMBDA x : x # -1)

StrictlyIncreasingWithin(idxs, n) ==
    /\ \A k \in 1..Len(idxs) : idxs[k] >= 0 /\ idxs[k] < n
    /\ \A k \in 1..(Len(idxs) - 1) : idxs[k] < idxs[k + 1]

\* number of pairs whose component c is idx
Occurrences(pairs, c, idx) ==
    Cardinality({k \in 1..Len(pairs) : pairs[k][c] = idx})

\* C1: in every pair list the aligner returns, the non-gap original indices
\* are strictly increasing and lie in [0, len(A)), and the non-gap modified
\* indices are strictly increasing and lie in [0, len(B)).
C1_AlignerSoundness ==
    pc = "pairs" =>
        /\ StrictlyIncreasingWithin(NonGaps(para_pairs, 1), Len(orig_paragraphs))
        /\ StrictlyIncreasingWithin(NonGaps(para_pairs, 2), Len(mod_paragraphs))

\* C2: the returned pair list has one row per element of either side: every
\* original index is the first component of exactly one pair and every
\* modified index is the second component of exactly one pair.
C2_OneRowPerElement ==
    pc = "pairs" =>
        /\ \A i \in 0..(Len(orig_paragraphs) - 1) :
               Occurrences(para_pairs, 1, i) = 1
        /\ \A j \in 0..(Len(mod_paragraphs) - 1) :
               Occurrences(para_pairs, 2, j) = 1

\* C3: every pair (i, j) without a gap joins two paragraphs with equal keys
\* normalized|style_sig, so paragraphs with equal normalized text and
\* different style_sig never share a pair.
C3_PairedKeysEqual ==
    pc = "pairs" =>
        \A k \in 1..Len(para_pairs) :
            (para_pairs[k][1] >= 0 /\ para_pairs[k][2] >= 0) =>
                ParagraphKey(At(orig_paragraphs, para_pairs[k][1]))
                    = ParagraphKey(At(mod_paragraphs, para_pairs[k][2]))

-----------------------------------------------------------------------------
(* Properties of run_compare_ooxml, checked under Spec *)

StatsAre(ins, del, mov, tot) ==
    /\ result.kind = "ok"
    /\ result.stats = [insertions |-> ins, deletions |-> del, moves |-> mov,
                       total |-> tot]

\* C4: identity. Comparing a paragraph list with itself does not raise,
\* yields the pairs (0,0), ..., (n-1,n-1), records no revision operation and
\* reports all four stats as 0.
C4_Identity ==
    orig_paragraphs = mod_paragraphs =>
        /\ pc # "raised"
        /\ pc = "done" =>
               /\ para_pairs = [k \in 1..Len(orig_paragraphs) |-> <<k - 1, k - 1>>]
               /\ revision_operations = <<>>
               /\ StatsAre(0, 0, 0, 0)

\* a finished comparison of a two-paragraph document, whose paragraphs are
\* duplicates of each other, with itself
C4_Witness ==
    /\ pc = "done"
    /\ orig_paragraphs = mod_paragraphs
    /\ Len(orig_paragraphs) = 2
    /\ orig_paragraphs[1] = orig_paragraphs[2]

\* the tokens of u are the tokens of t with a word and a space inserted
\* between two of them
OneWordInserted(t, u) ==
    LET tt == tokenize_preserve_spacing(t)
        tu == tokenize_preserve_spacing(u)
    IN  /\ Len(tu) = Len(tt) + 2
        /\ \E i \in 1..(Len(tt) - 1) :
               /\ SubSeq(tu, 1, i) = SubSeq(tt, 1, i)
               /\ IsWord(tu[i + 1][1])
               /\ tu[i + 2] = <<" ">>
               /\ SubSeq(tu, i + 3, Len(tu)) = SubSeq(tt, i + 1, Len(tt))

\* C5: one paragraph on each side, same style, the modified text being the
\* original with one word and its following space inserted in the middle:
\* the stats are insertions = 1, deletions = 0, moves = 0, total = 1.
C5_SingleWordInsertion ==
    (/\ pc = "done"
     /\ Len(orig_paragraphs) = 1
     /\ Len(mod_paragraphs) = 1
     /\ orig_paragraphs[1].style_sig = mod_paragraphs[1].style_sig
     /\ OneWordInserted(orig_paragraphs[1].text, mod_paragraphs[1].text))
        => StatsAre(1, 0, 0, 1)

\* C6: the modified document is the original with its two paragraphs (of
\* different keys) swapped and the first has at least min_move_span_tokens tokens: the stats are
\* insertions = 0, deletions = 0, moves = 1, total = 1.
C6_ParagraphSwapIsOneMove ==
    (/\ pc = "done"
     /\ Len(orig_paragraphs) = 2
     /\ ParagraphKey(orig_paragraphs[1]) # ParagraphKey(orig_paragraphs[2])
     /\ mod_paragraphs = <<orig_paragraphs[2], orig_paragraphs[1]>>
     /\ Len(tokenize_preserve_spacing(orig_paragraphs[1].text))
            >= options.min_move_span_tokens)
        => StatsAre(0, 0, 1, 1)

SameTextOtherStyle ==
    /\ Len(orig_paragraphs) = 1
    /\ Len(mod_paragraphs) = 1
    /\ orig_paragraphs[1].text = mod_paragraphs[1].text
    /\ orig_paragraphs[1].style_sig # mod_paragraphs[1].style_sig

\* C7: one paragraph on each side with identical text and different
\* style_sig: the comparison does not raise, the pairs are (0,-1), (-1,0) and
\* the stats are insertions = 1, deletions = 1, moves = 0, total = 2.
C7_FormattingOnlyChange ==
    SameTextOtherStyle =>
        /\ pc # "raised"
        /\ pc = "done" =>
               /\ para_pairs = << <<0, -1>>, <<-1, 0>> >>
               /\ StatsAre(1, 1, 0, 2)

C7_Witness ==
    /\ pc = "done"
    /\ SameTextOtherStyle

\* C8: text conservation. The returned document without its del/moveFrom
\* subtrees has the modified document's text, and without its ins/moveTo
\* subtrees has the original document's text.
C8_TextConservation ==
    pc = "done" =>
        /\ NodeText(result.document, {"del", "moveFrom"})
               = ParagraphsText(mod_paragraphs)
        /\ NodeText(result.document, {"ins", "moveTo"})
               = ParagraphsText(orig_paragraphs)

\* C9: stats.moves counts each move pair found by the move detector once.
C9_MovesCountPairs ==
    pc = "done" => result.stats.moves = moves_detected

-----------------------------------------------------------------------------
(* Properties of the move detector, checked under SpecMoves *)

SpanTokenCount(spans, idx) == Len(At(spans, idx)[2])

\* C10: minimum-span rule. No mapping returned by _detect_moves_shingled has
\* a deletion span or an insertion span of fewer than min_span_tokens tokens.
C10_MinimumSpanRule ==
    pc = "detected" =>
        \A k \in DOMAIN move_mappings :
            /\ SpanTokenCount(deleted_spans, k[1])
                   >= options.min_move_span_tokens
            /\ SpanTokenCount(inserted_spans, move_mappings[k][1])
                   >= options.min_move_span_tokens

\* the detector has returned: a deletion and an insertion with the same
\* tokens, enough of them for a shingle but fewer than min_span_tokens, are
\* left unmatched next to a pair that was matched
C10_Witness ==
    /\ pc = "detected"
    /\ move_mappings # <<>>
    /\ \E d \in 1..Len(deleted_spans), i \in 1..Len(inserted_spans) :
           /\ deleted_spans[d][2] = inserted_spans[i][2]
           /\ Len(deleted_spans[d][2]) >= options.shingle_size
           /\ Len(deleted_spans[d][2]) < options.min_move_span_tokens
           /\ \A k \in DOMAIN move_mappings :
                  k[1] # d - 1 /\ move_mappings[k][1] # i - 1

FracEq(x, y) == x[1] * y[2] = y[1] * x[2]

\* one deletion span and one insertion span, both of at least
\* min_span_tokens tokens
OneEligiblePair ==
    /\ Len(deleted_spans) = 1
    /\ Len(inserted_spans) = 1
    /\ SpanTokenCount(deleted_spans, 0) >= options.min_move_span_tokens
    /\ SpanTokenCount(inserted_spans, 0) >= options.min_move_span_tokens

\* the Jaccard similarity of the shingle sets of the two spans
PairJaccard ==
    _jaccard_similarity(
        _token_shingles(deleted_spans[1][2], options.shingle_size),
        _token_shingles(inserted_spans[1][2], options.shingle_size))

\* C11: Jaccard boundary. One eligible deletion span and one eligible
\* insertion span are matched when the Jaccard similarity of their shingle
\* sets equals jaccard_threshold (threshold 0 and two empty shingle sets
\* included), and are not matched when it is strictly below the threshold.
C11_JaccardBoundary ==
    (pc = "detected" /\ OneEligiblePair) =>
        /\ FracEq(PairJaccard, options.jaccard_threshold)
               => move_mappings = (<<0, 0, 0>> :> <<0, 0, 0>>)
        /\ FracGt(options.jaccard_threshold, PairJaccard)
               => move_mappings = <<>>

\* C12: in the returned mapping each deletion span index is in at most one
\* key and each insertion span index is in at most one value.
C12_AtMostOneMove ==
    pc = "detected" =>
        \A k1, k2 \in DOMAIN move_mappings :
            (k1[1] = k2[1] \/ move_mappings[k1][1] = move_mappings[k2][1])
                => k1 = k2

\* the detector has returned a move for one of two deletions that both reach
\* the threshold with the only insertion
C12_Witness ==
    /\ pc = "detected"
    /\ Len(deleted_spans) = 2
    /\ Len(inserted_spans) = 1
    /\ \A d \in 1..2 :
           LET dsh == SpanShingles(deleted_spans[d], options.shingle_size,
                                   options.min_move_span_tokens)
               ish == SpanShingles(inserted_spans[1], options.shingle_size,
                                   options.min_move_span_tokens)
           IN  /\ dsh # {}
               /\ ish # {}
               /\ FracGeq(_jaccard_similarity(dsh, ish),
                          options.jaccard_threshold)
               /\ FracGt(_jaccard_similarity(dsh, ish), <<0, 1>>)
    /\ Cardinality(DOMAIN move_mappings) = 1

-----------------------------------------------------------------------------
(* Properties of the OOXML functions, checked under SpecXml *)

\* the element or one of its descendants has the tag
RECURSIVE HasTag(_, _)
HasTag(element, tag) ==
    \/ element.tag = tag
    \/ \E k \in 1..Len(element.children) : HasTag(element.children[k], tag)

\* the ids of the move pairs grow along the list
IdsIncrease(pairs) ==
    \A k \in 1..(Len(pairs) - 1) :
        pairs[k][1].attrs["id"] < pairs[k + 1][1].attrs["id"]

\* C13: the moveFrom and moveTo elements of one create_move_pair call carry
\* an id attribute of the same value, the same author and the same date, and
\* the ids of the successive pairs of one comparison increase.
C13_PairedMoveIds ==
    pc = "moves" =>
        /\ \A k \in 1..Len(move_pairs) :
               /\ "id" \in DOMAIN move_pairs[k][1].attrs
               /\ "id" \in DOMAIN move_pairs[k][2].attrs
               /\ move_pairs[k][1].attrs["id"] = move_pairs[k][2].attrs["id"]
               /\ move_pairs[k][1].attrs["author"]
                      = move_pairs[k][2].attrs["author"]
               /\ move_pairs[k][1].attrs["date"]
                      = move_pairs[k][2].attrs["date"]
        /\ IdsIncrease(move_pairs)

\* C14: no t element is left under the del wrapper that wrap_with_del
\* returns, nor under the moveFrom element that create_move_pair returns:
\* the text of deleted runs is held by delText elements.
C14_DeletedTextIsDelText ==
    /\ pc = "wrapped" => ~HasTag(xml_result, "t")
    /\ pc = "moves" =>
           \A k \in 1..Len(move_pairs) : ~HasTag(move_pairs[k][1], "t")

\* C15: split_run_at_boundary returns, for every run and every char_offset
\* from 0 to the length of the run text, a left and a right run whose texts,
\* concatenated, are the text the run had before the call.
C15_SplitConservesText ==
    (pc \in {"split", "raised"} /\ xml_call.op = "split_run_at_boundary") =>
        /\ pc = "split"
        /\ RunText(xml_result[1]) \o RunText(xml_result[2])
               = RunText(xml_call.run_element)

\* C17: in the ParagraphInfo that enumerate_paragraphs builds, tab and break
\* children included, the start_pos of every run is the sum of the lengths
\* of the texts of the runs before it, and the lengths of the run texts sum
\* to the length of the paragraph text.
C17_RunOffsets ==
    pc = "enumerated" =>
        LET runs == xml_result.runs
            texts == [k \in 1..Len(runs) |-> runs[k].text]
        IN  /\ \A k \in 1..Len(runs) :
                   runs[k].start_pos = SumLen(SubSeq(texts, 1, k - 1))
            /\ SumLen(texts) = Len(xml_result.text)

-----------------------------------------------------------------------------
(* Properties of the tokenizer, checked under SpecText *)

\* the class of a token: word run, whitespace run or punctuation
TokenClass(token) ==
    IF IsWord(token[1]) THEN "word"
    ELSE IF IsSpace(token[1]) THEN "space" ELSE "punct"

\* C18: the tokens of tokenize_preserve_spacing(s) concatenate to s; each is
\* a non-empty run of word characters, a non-empty run of whitespace or one
\* punctuation character, and no two adjacent tokens are both word runs or
\* both whitespace runs.
C18_TokensPartitionText ==
    pc = "tokenized" =>
        /\ Concat(tok_result) = tok_text
        /\ \A k \in 1..Len(tok_result) :
               LET token == tok_result[k]
               IN  /\ token # <<>>
                   /\ \/ \A i \in 1..Len(token) : IsWord(token[i])
                      \/ \A i \in 1..Len(token) : IsSpace(token[i])
                      \/ Len(token) = 1 /\ ~IsWord(token[1])
                            /\ ~IsSpace(token[1])
        /\ \A k \in 1..(Len(tok_result) - 1) :
               TokenClass(tok_result[k]) = TokenClass(tok_result[k + 1])
                   => TokenClass(tok_result[k]) = "punct"

\* the tokenizer has returned for a text with a word run and a whitespace
\* run of two characters each, or with two punctuation characters in a row
C18_Witness ==
    /\ pc = "tokenized"
    /\ \/ \E k \in 1..Len(tok_result) : Len(tok_result[k]) = 2
       \/ \E k \in 1..(Len(tok_result) - 1) :
              /\ TokenClass(tok_result[k]) = "punct"
              /\ TokenClass(tok_result[k + 1]) = "punct"
    /\ Len(tok_result) >= 2

-----------------------------------------------------------------------------
(* Properties of the inline diff, checked under Spec *)

\* the intervals <<op[lo], op[hi]>> of the opcodes tagged equal or tag follow
\* one another from pos to n
RECURSIVE Covers(_, _, _, _, _, _)
Covers(opcodes, tag, lo, hi, pos, n) ==
    IF opcodes = <<>> THEN pos = n
    ELSE LET op == Head(opcodes)
         IN  IF op[1] \in {"equal", tag}
             THEN /\ op[lo] = pos
                  /\ op[hi] >= pos
                  /\ Covers(Tail(opcodes), tag, lo, hi, op[hi], n)
             ELSE Covers(Tail(opcodes), tag, lo, hi, pos, n)

\* C16: the opcodes of _diff_runs_inline are character intervals over the
\* two paragraph texts: the original intervals of the equal and delete
\* opcodes are contiguous from 0 to len(original text) and the modified
\* intervals of the equal and insert opcodes are contiguous from 0 to
\* len(modified text).
C16_OpcodesCoverTexts ==
    \A k \in 1..Len(revision_operations) :
        LET rev == revision_operations[k]
        IN  rev.kind = "replace" =>
                /\ Covers(rev.operations, "delete", 2, 3, 0,
                          Len(At(orig_paragraphs, rev.orig_para_idx).text))
                /\ Covers(rev.operations, "insert", 4, 5, 0,
                          Len(At(mod_paragraphs, rev.mod_para_idx).text))

-----------------------------------------------------------------------------
(* Properties of run_compare_ooxml, checked under SpecOptions *)

OptionsOutOfRange ==
    \/ options.shingle_size < 0
    \/ FracGt(<<0, 1>>, options.jaccard_threshold)
    \/ FracGt(options.jaccard_threshold, <<1, 1>>)

\* C19: run_compare_ooxml rejects options out of range at entry: with a
\* negative shingle_size or a jaccard_threshold outside [0,1] no alignment is
\* done and no result is returned.
C19_RejectsBadOptions ==
    OptionsOutOfRange =>
        /\ pc \notin {"pairs", "done"}
        /\ para_pairs = <<>>
        /\ result.kind # "ok"

-----------------------------------------------------------------------------
(* Properties of two runs of run_compare_ooxml, checked under SpecTwice *)

-----------------------------------------------------------------------------
(* The helpers of the aligner *)

CallReturned(op) == pc = "returned" /\ fn_call.op = op

\* the positions of b with the key of a[i] that no candidate of an earlier
\* element of a has taken
FreePositions(a, b, matches, i) ==
    {j \in 0..(Len(b) - 1) :
        /\ At(b, j) = At(a, i)
        /\ \A l \in 1..Len(matches) : matches[l][1] < i => matches[l][2] # j}

Unmatched(a, matches) ==
    {i \in 0..(Len(a) - 1) : \A k \in 1..Len(matches) : matches[k][1] # i}

\* C22: the candidate match list is built greedily: walking A in order, each
\* a_i whose key still has unused positions in B is matched to the smallest
\* unused position j with the same key; every candidate has equal keys, no j
\* is used twice, and a_i is unmatched only when every position of its key in
\* B is already used.
C22_GreedyMatches ==
    CallReturned("matches") =>
        LET a == fn_call.a
            b == fn_call.b
            matches == fn_result
        IN  /\ \A k \in 1..Len(matches) :
                   LET i == matches[k][1]
                       j == matches[k][2]
                   IN  /\ i \in 0..(Len(a) - 1)
                       /\ j \in FreePositions(a, b, matches, i)
                       /\ At(a, i) = At(b, j)
                       /\ \A j2 \in FreePositions(a, b, matches, i) : j <= j2
            /\ \A k, l \in 1..Len(matches) :
                   k < l => /\ matches[k][1] < matches[l][1]
                            /\ matches[k][2] # matches[l][2]
            /\ \A i \in Unmatched(a, matches) :
                   FreePositions(a, b, matches, i) = {}

\* an element is left unmatched although its key occurs in B, and a candidate
\* is not the first position of its key
C22_Witness ==
    /\ CallReturned("matches")
    /\ \E i \in Unmatched(fn_call.a, fn_result) :
           \E j \in 0..(Len(fn_call.b) - 1) : At(fn_call.b, j) = At(fn_call.a, i)
    /\ \E k \in 1..Len(fn_result) :
           \E j \in 0..(fn_result[k][2] - 1) :
               At(fn_call.b, j) = At(fn_call.a, fn_result[k][1])

\* the place in the sequence of the tuple with this index
PlaceOf(sequence, idx) == CHOOSE k \in 1..Len(sequence) : sequence[k][2] = idx

\* the sets of places whose values increase strictly
IncreasingPlaces(sequence) ==
    {P \in SUBSET (1..Len(sequence)) :
        \A p, q \in P : p < q => sequence[p][1] < sequence[q][1]}

\* C23: on tuples with pairwise distinct values and distinct indices,
\* _patience_lis returns the indices, in sequence order, of a strictly
\* increasing subsequence of the values of maximum length.
C23_LongestIncreasing ==
    CallReturned("_patience_lis") =>
        LET sequence == fn_call.sequence
            lis == fn_result
        IN  /\ \A k \in 1..Len(lis) :
                   \E p \in 1..Len(sequence) : sequence[p][2] = lis[k]
            /\ \A k \in 1..(Len(lis) - 1) :
                   /\ PlaceOf(sequence, lis[k]) < PlaceOf(sequence, lis[k + 1])
                   /\ sequence[PlaceOf(sequence, lis[k])][1]
                          < sequence[PlaceOf(sequence, lis[k + 1])][1]
            /\ \A P \in IncreasingPlaces(sequence) : Cardinality(P) <= Len(lis)

\* the values are neither increasing nor decreasing: the subsequence skips
\* some tuples and keeps more than one
C23_Witness ==
    /\ CallReturned("_patience_lis")
    /\ Len(fn_call.sequence) >= 4
    /\ Len(fn_result) \in 2..(Len(fn_call.sequence) - 1)
    /\ fn_result[1] # fn_call.sequence[1][2]

Elements(seq) == {seq[k] : k \in 1..Len(seq)}

Ranged(opcodes, tag, lo, hi) ==
    UNION {opcodes[k][lo]..(opcodes[k][hi] - 1) :
              k \in {k \in 1..Len(opcodes) : opcodes[k][1] = tag}}

\* the ranges of the opcodes with this tag are not empty, lie in 0 .. n - 1 and
\* follow each other without overlap
RangesInOrder(opcodes, tag, lo, hi, n) ==
    LET ks == {k \in 1..Len(opcodes) : opcodes[k][1] = tag}
    IN  /\ \A k \in ks : 0 <= opcodes[k][lo] /\ opcodes[k][lo] < opcodes[k][hi]
                         /\ opcodes[k][hi] <= n
        /\ \A k, l \in ks : k < l => opcodes[k][hi] <= opcodes[l][lo]

\* the elements of seq at the positions outside the set, in order
RECURSIVE Outside(_, _, _)
Outside(seq, positions, i) ==
    IF i >= Len(seq) THEN <<>>
    ELSE (IF i \in positions THEN <<>> ELSE <<At(seq, i)>>)
           \o Outside(seq, positions, i + 1)

\* C27: the opcodes of _myers_diff(a, b) form a valid edit script: the delete
\* ranges lie in [0, len(a)), the insert ranges in [0, len(b)), both in
\* increasing order and pairwise disjoint, and the elements of a outside the
\* delete ranges equal, in order, the elements of b outside the insert ranges.
C27_ValidEditScript ==
    CallReturned("_myers_diff") =>
        LET a == fn_call.a
            b == fn_call.b
        IN  /\ RangesInOrder(fn_result, "delete", 2, 3, Len(a))
            /\ RangesInOrder(fn_result, "insert", 4, 5, Len(b))
            /\ Outside(a, Ranged(fn_result, "delete", 2, 3), 0)
                   = Outside(b, Ranged(fn_result, "insert", 4, 5), 0)

\* two delete ranges with a kept element between them, and an insertion
C27_Witness ==
    /\ CallReturned("_myers_diff")
    /\ Cardinality({k \in 1..Len(fn_result) : fn_result[k][1] = "delete"}) = 2
    /\ \E k \in 1..Len(fn_result) : fn_result[k][1] = "insert"
    /\ Outside(fn_call.a, Ranged(fn_result, "delete", 2, 3), 0) # <<>>

\* C28: _align_patience_myers returns a pair list without raising for every
\* pair of input sequences, also when an element of the original without a
\* match precedes a matched one: no out-of-range index is used when the
\* anchors are looked up.
C28_AlignerNeverRaises ==
    pc \in {"pairs", "raised"} => /\ pc = "pairs"
                                  /\ result # [kind |-> "IndexError"]

\* C30: for every run with text of length n and every char_offset in 0 .. n,
\* split_run_at_boundary leaves exactly the first char_offset characters in
\* the left run and puts the remaining n - char_offset characters in the right
\* run; at char_offset = n the left run keeps all the text and the right run
\* is empty.
C30_SplitAtOffset ==
    (pc = "split" /\ xml_call.op = "split_run_at_boundary") =>
        LET text == RunText(xml_call.run_element)
        IN  /\ RunText(xml_result[1]) = PySlice(text, 0, xml_call.char_offset)
            /\ RunText(xml_result[2])
                   = PySlice(text, xml_call.char_offset, Len(text))

-----------------------------------------------------------------------------
(* The order in which the move detector matches the spans *)

\* the spans of at least min_move_span_tokens tokens, by index
EligibleSpans(spans) ==
    {i \in 0..(Len(spans) - 1) :
        SpanTokenCount(spans, i) >= options.min_move_span_tokens}

ShinglesOf(spans, i) == _token_shingles(At(spans, i)[2], options.shingle_size)

SpanJaccard(d, i) ==
    _jaccard_similarity(ShinglesOf(deleted_spans, d),
                        ShinglesOf(inserted_spans, i))

\* deletion d1 is processed before deletion d2
ProcessedBefore(d1, d2) ==
    LET n1 == Cardinality(ShinglesOf(deleted_spans, d1))
        n2 == Cardinality(ShinglesOf(deleted_spans, d2))
    IN  n1 > n2 \/ (n1 = n2 /\ d1 < d2)

\* the insertions of the moves found when the deletions of the set are
\* processed in that order, given the insertions claimed before: the result
\* maps deletion indices to insertion indices
RECURSIVE MovesInOrder(_, _)
MovesInOrder(deletions, claimed) ==
    IF deletions = {} THEN <<>>
    ELSE LET d == CHOOSE d1 \in deletions :
                      \A d2 \in deletions \ {d1} : ProcessedBefore(d1, d2)
             reach == {i \in EligibleSpans(inserted_spans) \ claimed :
                          FracGeq(SpanJaccard(d, i), options.jaccard_threshold)}
             best == {i \in reach :
                         \A i2 \in reach :
                             FracGeq(SpanJaccard(d, i), SpanJaccard(d, i2))}
         IN  IF reach = {} THEN MovesInOrder(deletions \ {d}, claimed)
             ELSE LET ins == CHOOSE i \in best : \A i2 \in best : i <= i2
                  IN  (d :> ins)
                        @@ MovesInOrder(deletions \ {d}, claimed \union {ins})

\* the deletion and insertion indices of the returned mapping
ReturnedMoves ==
    [d \in {key[1] : key \in DOMAIN move_mappings} |->
        move_mappings[CHOOSE key \in DOMAIN move_mappings : key[1] = d][1]]

\* C25: the deletion spans are processed in order of decreasing shingle-set
\* size, ties broken by the earlier index; each is matched with the unclaimed
\* eligible insertion of highest Jaccard similarity among those at or above
\* the threshold, the lowest index when several share that value.
C25_MatchingOrder ==
    pc = "detected" =>
        ReturnedMoves = MovesInOrder(EligibleSpans(deleted_spans), {})

\* the same, for thresholds above 0 and spans that are not shorter than a
\* shingle
C25_AboveZero ==
    (/\ pc = "detected"
     /\ options.jaccard_threshold[1] > 0
     /\ \A d \in EligibleSpans(deleted_spans) : ShinglesOf(deleted_spans, d) # {}
     /\ \A i \in EligibleSpans(inserted_spans) :
            ShinglesOf(inserted_spans, i) # {})
        => ReturnedMoves = MovesInOrder(EligibleSpans(deleted_spans), {})

-----------------------------------------------------------------------------
(* The is_move flags of the classified opcodes, checked under Spec *)

\* the number of opcodes before position k with the tag of opcode k: the
\* index of its span in deleted_spans or inserted_spans
SpanIndex(operations, k) ==
    Cardinality({l \in 1..(k - 1) : operations[l][1] = operations[k][1]})

\* C26: in the list _classify_operations_with_moves returns, a delete opcode
\* has is_move = true exactly when the move detector matched its span, an
\* insert opcode exactly when its span is the insertion side of a match, and
\* an equal opcode never; all opcodes keep their intervals and their order.
C26_MoveFlags ==
    (/\ revision_operations # <<>>
     /\ revision_operations[Len(revision_operations)].kind = "replace") =>
        LET rev == revision_operations[Len(revision_operations)]
            operations == rev.operations
            opcodes ==
                dmp_results[<<TokenStr(At(orig_paragraphs,
                                          rev.orig_para_idx).runs),
                              TokenStr(At(mod_paragraphs,
                                          rev.mod_para_idx).runs)>>]
        IN  /\ Len(operations) = Len(opcodes)
            /\ \A k \in 1..Len(operations) :
                   /\ SubSeq(operations[k], 1, 5) = opcodes[k]
                   /\ operations[k][6] =
                          IF operations[k][1] = "delete"
                          THEN \E key \in DOMAIN move_mappings :
                                   key[1] = SpanIndex(operations, k)
                          ELSE IF operations[k][1] = "insert"
                          THEN \E key \in DOMAIN move_mappings :
                                   move_mappings[key][1]
                                       = SpanIndex(operations, k)
                          ELSE FALSE

-----------------------------------------------------------------------------
(* Properties of the legacy HTML path *)

\* the escaped texts of the parts whose class is in the set, one after the
\* other
PartsText(html, classes) ==
    Concat([k \in 1..Len(html) |->
               IF html[k].cls \in classes THEN html[k].text ELSE <<>>])

HasSpan(html, classes) == \E k \in 1..Len(html) : html[k].cls \in classes

\* one original and one modified paragraph whose texts differ
OneChangedParagraph ==
    /\ Len(orig_paragraphs) = 1
    /\ Len(mod_paragraphs) = 1
    /\ orig_paragraphs[1].text # mod_paragraphs[1].text

\* C21 as stated: run_compare on one original and one modified paragraph
\* whose texts differ gives exactly one output paragraph, stats.total >= 1,
\* and HTML with a span of class diff-insert or of class diff-delete.
C21_ChangedParagraph ==
    (pc = "compared" /\ OneChangedParagraph) =>
        /\ Len(result.paragraphs) = 1
        /\ result.stats.total >= 1
        /\ HasSpan(result.paragraphs[1].html,
                   {"diff-insert", "diff-delete line-through"})

\* C21 amended: the same with a span of class diff-insert, diff-delete or
\* diff-move: a changed segment that is an n-gram of the other document is
\* marked as a move.
C21_ChangedParagraphOrMove ==
    (pc = "compared" /\ OneChangedParagraph) =>
        /\ Len(result.paragraphs) = 1
        /\ result.stats.total >= 1
        /\ HasSpan(result.paragraphs[1].html,
                   {"diff-insert", "diff-delete line-through",
                    "diff-move", "diff-move line-through"})

\* a changed paragraph whose only spans are the two sides of a move
C21_Witness ==
    /\ pc = "compared"
    /\ OneChangedParagraph
    /\ HasSpan(result.paragraphs[1].html, {"diff-move line-through"})
    /\ HasSpan(result.paragraphs[1].html, {"diff-move"})
    /\ ~HasSpan(result.paragraphs[1].html,
                {"diff-insert", "diff-delete line-through"})
    /\ result.stats.total = 2

\* C29: the segments _classify_and_wrap emits conserve text: the equal
\* segments and the segments of the spans without line-through (diff-insert,
\* diff-move) give, in order, the modified text, and the equal segments and
\* the segments of the line-through spans give the original text.
C29_SegmentsConserveText ==
    CallReturned("_classify_and_wrap") =>
        /\ PartsText(fn_result.html, {"", "diff-insert", "diff-move"})
               = html_escape(Concat(fn_call.tokens_b))
        /\ PartsText(fn_result.html, {"", "diff-delete line-through",
                                      "diff-move line-through"})
               = html_escape(Concat(fn_call.tokens_a))

\* a replace block before an equal block: the deleted segment is a move, the
\* inserted segment is escaped
C29_Witness ==
    /\ CallReturned("_classify_and_wrap")
    /\ Len(fn_result.html) = 3
    /\ fn_result.html[1].cls # ""
    /\ fn_result.html[2].cls # ""
    /\ fn_result.html[3].cls = ""
    /\ HasSpan(fn_result.html, {"diff-move line-through"})
    /\ HasSpan(fn_result.html, {"diff-insert"})
    /\ Len(fn_result.html[2].text) > 1

====
